---- MODULE Spec2Model ----
(***************************************************************************)
(* GHS safety binder automation: the deployment pipeline                   *)
(* (GHSBinderDeployer, scripts/dashboard.js) and the chemical registry     *)
(* (ChemicalManager), modelled as a state machine over the customer        *)
(* config file, the local PDF / asset folders and the remote repository.   *)
(*                                                                         *)
(* Strings the code inspects are kept as short tuples of tokens:           *)
(*   a filename is <<stem, suffix>>      (endsWith looks at the suffix),   *)
(*   an asset name is <<first char, rest>> (startsWith looks at the head), *)
(*   a content-type is a tuple of tokens (includes looks for a token),     *)
(*   a chemical name is a tuple of one-character strings.                  *)
(***************************************************************************)
EXTENDS Integers, Sequences, FiniteSets, TLC

VARIABLES
    configFile,   \* customer_configs/<slug>.json: the stored CustomerConfig
    localPdfs,    \* filenames present in the local pdfs/ folder
    assetDir,     \* assets/<slug>/ : NoDir or the directory listing
    today,        \* the calendar date new Date() returns
    remote,       \* the customer's repository on the hosting service
    service,      \* how the hosting service behaves: its faults, what it serves
    dep,          \* the running deployCustomerSite call (position and locals)
    op,           \* the running ChemicalManager call (position and locals)
    runs,         \* number of top-level calls (deploy, add, remove, update) so far
    other,        \* a second ChemicalManager call, running beside op
    uploads       \* the file names in the staging directory uploads/<slug>

vars ==
    <<configFile, localPdfs, assetDir, today, remote, service, dep, op, runs,
      other, uploads>>

----------------------------------------------------------------------------
(* Bounds *)

MaxRuns == 2
MaxDate == 2
MaxChemicals == 2
MaxNameLen == 3

----------------------------------------------------------------------------
(* Strings *)

NoName == <<"", "">>
Str(f) == f[1] \o f[2]
Falsy(f) == Str(f) = ""

\* file.data?.filename, chemical.literature?.filename: NoName when absent
Filename(file) == IF "filename" \in DOMAIN file THEN file.filename ELSE NoName

Range(s) == {s[i] : i \in 1..Len(s)}

----------------------------------------------------------------------------
(* Customer configuration *)

\* a title is <<chemical name, suffix>>
DocRef(filename, title) ==
    [filename |-> filename, url |-> "pdfs/" \o Str(filename), title |-> title]

\* a chemical record; deactivated_date 0 stands for a record without one
Chemical(id, name, lit, sds, active, date) ==
    [id |-> id, name |-> name,
     description |-> "Professional chemical product",
     hazards |-> "See Safety Data Sheet for complete hazard information",
     literature |-> DocRef(lit, <<name, " Product Literature">>),
     sds |-> DocRef(sds, <<name, " Safety Data Sheet">>),
     supplier |-> "Unknown Supplier",
     last_updated |-> date, active |-> active, deactivated_date |-> 0]

ALit == <<"a_lit", ".pdf">>
ASds == <<"a_sds", ".pdf">>
BLit == <<"b_lit", ".pdf">>
BSds == <<"b_sds", ".pdf">>
AllPdfNames == {ALit, ASds, BLit, BSds}

ChemA(active) == Chemical(<<"a">>, <<"A">>, ALit, ASds, active, 1)
ChemB(active) == Chemical(<<"b">>, <<"B">>, BLit, BSds, active, 1)

InitChemicalLists ==
    {<<>>, <<ChemA(TRUE)>>, <<ChemA(TRUE), ChemB(TRUE)>>,
     <<ChemA(FALSE), ChemB(TRUE)>>, <<ChemA(TRUE), ChemB(FALSE)>>}

RepoName == "acme-ghs-binder"
Owner == "rascoused"

CustomerConfig(chemicals) ==
    [customer_info |-> [name |-> "Acme", slug |-> "acme",
                        github_repo |-> [name |-> RepoName]],
     chemicals |-> chemicals,
     site_settings |-> [last_updated |-> 1],
     deployment |-> [status |-> "created", last_deployed |-> 0]]

ActiveOf(chemicals) == SelectSeq(chemicals, LAMBDA c : c.active)

\* the config file holds JSON.stringify(config); readers JSON.parse it
JSONstringify(config) == [json |-> config]
JSONparse(text) == text.json

----------------------------------------------------------------------------
(* Local folders *)

AssetListing ==
    << [name |-> <<".", "DS_Store">>, isDir |-> FALSE],
       [name |-> <<"i", "mg">>, isDir |-> TRUE],
       [name |-> <<"l", "ogo.png">>, isDir |-> FALSE] >>
NoDir == [exists |-> FALSE, entries |-> <<>>]
AssetDirs == {NoDir, [exists |-> TRUE, entries |-> AssetListing]}

LocalPdfChoices ==
    {AllPdfNames, AllPdfNames \ {ASds}, {}}

----------------------------------------------------------------------------
(* Contents and their transfer encoding *)

EmptyText == [kind |-> "text", body |-> "empty"]
PdfBytes(filename) == [kind |-> "pdf", body |-> Str(filename)]
AssetBytes(name) == [kind |-> "asset", body |-> Str(name)]

Base64(c) == [b64 |-> c]
Base64Decode(e) == e.b64

----------------------------------------------------------------------------
(* Template renderer *)

generateHTML_unfiltered(customerConfig, date) ==
    LET chemicals == customerConfig.chemicals
    IN  [kind |-> "html",
         TOTAL_PRODUCTS |-> Len(chemicals),
         TOTAL_DOCUMENTS |-> Len(chemicals) * 2,
         PRODUCTS_JSON |-> chemicals,
         LAST_UPDATED |-> customerConfig.site_settings.last_updated,
         GENERATION_DATE |-> date]

generateHTML(customerConfig, date) ==
    LET chemicals == ActiveOf(customerConfig.chemicals)
    IN  [kind |-> "html",
         TOTAL_PRODUCTS |-> Len(chemicals),
         TOTAL_DOCUMENTS |-> Len(chemicals) * 2,
         PRODUCTS_JSON |-> chemicals,
         LAST_UPDATED |-> customerConfig.site_settings.last_updated,
         GENERATION_DATE |-> date]

generateReadme(customerConfig, date) ==
    LET totalChemicals == Len(ActiveOf(customerConfig.chemicals))
    IN  [kind |-> "readme",
         name |-> customerConfig.customer_info.name,
         products |-> totalChemicals,
         documents |-> totalChemicals * 2,
         generated |-> date]

generateQRCodes(customerConfig) ==
    LET baseUrl == "https://" \o Owner \o ".github.io/"
                      \o customerConfig.customer_info.github_repo.name
    IN  [main_site |-> baseUrl,
         mobile_optimized |-> baseUrl \o "?mobile=1",
         emergency_access |-> baseUrl \o "?emergency=1"]

----------------------------------------------------------------------------
(* The hosting service, as the calls of the client see it *)

NoSha == [present |-> FALSE]
ShaOf(content) == [present |-> TRUE, blob |-> content]

Branches == {"main", "master"}
FaultStatuses == {500}

NoRemote == [exists |-> FALSE, default_branch |-> "main", files |-> <<>>,
             pages |-> [enabled |-> FALSE, branch |-> "main"]]

\* auto_init: true with license_template: 'mit' gives the new repository
\* a first commit holding README.md and LICENSE.
AutoInitFiles ==
    [p \in {"README.md", "LICENSE"} |->
        IF p = "LICENSE" THEN [kind |-> "license", body |-> "mit"]
                         ELSE [kind |-> "text", body |-> "auto_init"]]

HasFile(r, path) == r.exists /\ path \in DOMAIN r.files

\* repos.createForAuthenticatedUser: 201 with the new repository,
\* 422 when the name is taken, or a failure of the call.
CreateRepoResponses(r) ==
    (IF r.exists THEN {[status |-> 422, default_branch |-> ""]}
                 ELSE {[status |-> 201, default_branch |-> b] : b \in service.branches})
    \cup {[status |-> s, default_branch |-> ""] : s \in service.faults}

\* repos.get
GetRepoResponses(r) ==
    (IF r.exists THEN {[status |-> 200, default_branch |-> r.default_branch]}
                 ELSE {[status |-> 404, default_branch |-> ""]})
    \cup {[status |-> s, default_branch |-> ""] : s \in service.faults}

\* repos.getContent({path, ref})
GetContentResponses(r, path, ref) ==
    (IF HasFile(r, path) /\ ref = r.default_branch
        THEN {[status |-> 200, sha |-> ShaOf(r.files[path])]}
        ELSE {[status |-> 404, sha |-> NoSha]})
    \cup {[status |-> s, sha |-> NoSha] : s \in service.faults}

\* repos.createOrUpdateFileContents({path, content, branch, sha}): the
\* service creates the file when it is absent and no sha is given, and
\* replaces it when the given sha is the one of the stored blob.
PutStatus(r, path, branch, sha) ==
    IF ~r.exists \/ branch # r.default_branch THEN 404
    ELSE IF HasFile(r, path)
         THEN IF sha = ShaOf(r.files[path]) THEN 200
              ELSE IF sha.present THEN 409 ELSE 422
         ELSE IF sha.present THEN 422 ELSE 201

PutResponses(r, path, branch, sha) ==
    {PutStatus(r, path, branch, sha)} \cup service.faults

Stored(r, path, encoded) ==
    [r EXCEPT !.files =
        [p \in DOMAIN r.files \cup {path} |->
            IF p = path THEN Base64Decode(encoded) ELSE r.files[p]]]

\* repos.createPagesSite
CreatePagesResponses(r) ==
    (IF ~r.exists THEN {404}
     ELSE IF r.pages.enabled THEN {409} ELSE {201})
    \cup service.faults

\* What a HEAD request on a published document can answer.  A path the
\* repository does not hold is never served, and nothing is served while
\* Pages is off.
PdfType == <<"application/", "pdf">>
HtmlType == <<"text/", "html">>
NoHeader == -1
ServedPdf == [ok |-> TRUE, status |-> 200, type |-> PdfType, length |-> 2048]
ServedResponses ==
    {ServedPdf,
     [ok |-> TRUE, status |-> 200, type |-> PdfType, length |-> 1024],
     [ok |-> TRUE, status |-> 200, type |-> PdfType, length |-> 1023],
     [ok |-> TRUE, status |-> 200, type |-> PdfType, length |-> NoHeader],
     [ok |-> TRUE, status |-> 200, type |-> HtmlType, length |-> 2048],
     [ok |-> FALSE, status |-> 503, type |-> PdfType, length |-> 2048]}
NotFoundResponse == [ok |-> FALSE, status |-> 404, type |-> HtmlType, length |-> 2048]

HeadResponses(r, path) ==
    IF HasFile(r, path) /\ r.pages.enabled THEN service.served
                                           ELSE {NotFoundResponse}

\* a service that may fail any call and serve a document in any way, and
\* one that answers every call and serves every document it holds
Unreliable == [faults |-> FaultStatuses, branches |-> Branches,
               served |-> ServedResponses \cup {NotFoundResponse}]
Healthy == [faults |-> {}, branches |-> {"main"}, served |-> {ServedPdf}]

----------------------------------------------------------------------------
(* deployCustomerSite: position and locals of the running call *)

None == [kind |-> "none"]
NoError == [status |-> 0, at |-> "", reason |-> ""]
NoUpload == [phase |-> "none", sha |-> NoSha]

NewRun(customerConfig) ==
    [pc |-> "createRepository", config |-> customerConfig,
     repo |-> [name |-> "", default_branch |-> ""], branch |-> "",
     html |-> None, readme |-> None,
     di |-> 0, ai |-> 0, ci |-> 0, si |-> 0,
     up |-> NoUpload, error |-> NoError,
     steps |-> <<>>, calls |-> <<>>, result |-> None,
     committed |-> {}, reused |-> FALSE, after |-> "idle"]

Finished == {"idle", "done", "failed"}

\* a ChemicalManager call that is not running: none yet, returned, thrown
Settled == {"idle", "done", "failed"}

Thrown_swallowed(d, error) == [d EXCEPT !.error = error]

\* catch (error) { console.error(...); throw error; }
Thrown(d, error) == [d EXCEPT !.pc = "failed", !.error = error, !.up = NoUpload]

ApiError(status, at) == [status |-> status, at |-> at, reason |-> "api"]

Step(d, name) == [d EXCEPT !.steps = Append(d.steps, name)]

Slot_sdsFirst(chemical, si) == IF si = 1 THEN chemical.sds ELSE chemical.literature

\* files = [{ type: 'Literature', ... }, { type: 'SDS', ... }]
Slot(chemical, si) == IF si = 1 THEN chemical.literature ELSE chemical.sds
NextSlot(d) == IF d.si = 1 THEN [d EXCEPT !.si = 2]
                           ELSE [d EXCEPT !.ci = d.ci + 1, !.si = 1]

\* createDirectoryStructure: .nojekyll first, then the placeholder files
DirectoryStructure_placeholdersFirst ==
    <<"pdfs/.gitkeep", "assets/.gitkeep", "qr-codes/.gitkeep", ".nojekyll">>

DirectoryStructure ==
    <<".nojekyll", "pdfs/.gitkeep", "assets/.gitkeep", "qr-codes/.gitkeep">>

\* the text file the call is uploading at its position
TextTarget(d) ==
    CASE d.pc = "createDirectoryStructure" ->
            [path |-> DirectoryStructure[d.di], content |-> EmptyText]
      [] d.pc = "index"  -> [path |-> "index.html", content |-> d.html]
      [] d.pc = "readme" -> [path |-> "README.md", content |-> d.readme]

TextPcs == {"createDirectoryStructure", "index", "readme"}

\* where the call goes on after a text upload has returned
AfterText(d, date) ==
    CASE d.pc = "createDirectoryStructure" ->
            IF d.di < Len(DirectoryStructure)
                THEN [d EXCEPT !.di = d.di + 1]
                ELSE [d EXCEPT !.pc = "index"]
      [] d.pc = "index"  -> [d EXCEPT !.pc = "readme",
                                      !.readme = generateReadme(d.config, date)]
      [] d.pc = "readme" -> [d EXCEPT !.pc = "assets", !.ai = 0]

\* uploadCustomerAssets skips directories and dot files
SkippedAsset(entry) == entry.isDir \/ entry.name[1] = "."

\* the PDF step skips a slot without filename or without local file
MissingPdf(file, pdfs) == Falsy(Filename(file)) \/ Filename(file) \notin pdfs

HasBinTarget(d, dir, pdfs) ==
    CASE d.pc = "assets" -> /\ dir.exists
                            /\ d.ai \in 1..Len(dir.entries)
                            /\ ~SkippedAsset(dir.entries[d.ai])
      [] d.pc = "pdfs"   -> /\ d.ci \in 1..Len(d.config.chemicals)
                            /\ ~MissingPdf(Slot(d.config.chemicals[d.ci], d.si), pdfs)
      [] OTHER -> FALSE

BinTarget(d, dir) ==
    IF d.pc = "assets"
        THEN [path |-> "assets/" \o Str(dir.entries[d.ai].name),
              content |-> AssetBytes(dir.entries[d.ai].name)]
        ELSE LET f == Filename(Slot(d.config.chemicals[d.ci], d.si))
             IN  [path |-> "pdfs/" \o Str(f), content |-> PdfBytes(f)]

AfterBin(d) ==
    IF d.pc = "assets" THEN [d EXCEPT !.ai = d.ai + 1] ELSE NextSlot(d)

----------------------------------------------------------------------------
(* deployCustomerSite, step by step *)

\* the last two requests of the running call (a lookup and its commit)
Logged(d, entry) ==
    LET c == Append(d.calls, entry)
    IN  [d EXCEPT !.calls = IF Len(c) > 2 THEN Tail(c) ELSE c]

Call(d, call, path, sha, content, status) ==
    Logged(d, [call |-> call, path |-> path, sha |-> sha, content |-> content,
               branch |-> d.branch, status |-> status,
               type |-> <<>>, length |-> 0])

HeadCall(d, path, res) ==
    Logged(d, [call |-> "HEAD", path |-> path, sha |-> NoSha, content |-> None,
               branch |-> d.branch, status |-> res.status,
               type |-> res.type, length |-> res.length])

\* how the previous call ended: "partial" is a failure that left the
\* repository with some, not all, of the site's files
Outcome(d, r) ==
    IF d.pc = "failed" /\ HasFile(r, ".nojekyll") /\ ~HasFile(r, "index.html")
        THEN "partial" ELSE d.pc

\* handleDeployCustomer / CLI deploy: read the config file, call the deployer
DeployStart ==
    /\ dep.pc \in Finished
    /\ op.pc \in Settled
    /\ runs < MaxRuns
    /\ dep' = [NewRun(JSONparse(configFile)) EXCEPT !.after = Outcome(dep, remote)]
    /\ runs' = runs + 1
    /\ UNCHANGED <<configFile, localPdfs, assetDir, today, remote, service, op, other, uploads>>

\* createRepository: if (error.status === 422) use the existing repository
RepositoryExists(status) == status = 422

DefaultBranch_hardcoded(repo) == "main"

\* Step 2: const branch = repo.default_branch || 'main'
DefaultBranch(repo) ==
    IF repo.default_branch = "" THEN "main" ELSE repo.default_branch

Resolved(d, repo) ==
    [d EXCEPT !.repo = repo, !.branch = DefaultBranch(repo),
              !.pc = "generateHTML"]

Deploy_createRepository ==
    /\ dep.pc = "createRepository"
    /\ \E c \in CreateRepoResponses(remote) :
        LET d == Step(dep, "createRepository") IN
        IF c.status = 201
        THEN /\ remote' = [exists |-> TRUE,
                           default_branch |-> c.default_branch,
                           files |-> AutoInitFiles,
                           pages |-> [enabled |-> FALSE, branch |-> ""]]
             /\ dep' = Resolved(Call(d, "repos.create", "", NoSha, None, c.status),
                                [name |-> RepoName,
                                 default_branch |-> c.default_branch])
        ELSE IF RepositoryExists(c.status)
        THEN \E g \in GetRepoResponses(remote) :
             LET e == Call(Call(d, "repos.create", "", NoSha, None, c.status),
                           "repos.get", "", NoSha, None, g.status) IN
             /\ remote' = remote
             /\ dep' = IF g.status = 200
                          THEN [Resolved(e, [name |-> RepoName,
                                             default_branch |-> g.default_branch])
                                EXCEPT !.reused = TRUE]
                          ELSE Thrown(e, ApiError(g.status, "repos.get"))
        ELSE /\ remote' = remote
             /\ dep' = Thrown(Call(d, "repos.create", "", NoSha, None, c.status),
                              ApiError(c.status, "repos.create"))
    /\ UNCHANGED <<configFile, localPdfs, assetDir, today, service, op, runs, other, uploads>>

\* Step 3: read the template and render; an unreadable template throws
Deploy_generateHTML ==
    /\ dep.pc = "generateHTML"
    /\ \E readable \in BOOLEAN :
        LET d == Step(dep, "generateHTML") IN
        dep' = IF readable
                  THEN [d EXCEPT !.html = generateHTML(d.config, today),
                                 !.pc = "createDirectoryStructure", !.di = 1]
                  ELSE Thrown(d, [status |-> 0, at |-> "template",
                                  reason |-> "ENOENT"])
    /\ UNCHANGED <<configFile, localPdfs, assetDir, today, remote, service, op, runs, other, uploads>>

Looked(d, sha) == [d EXCEPT !.up = [phase |-> "looked", sha |-> sha]]

uploadFile_probe_ignoresAll(d, g, path) ==
    IF g.status = 200 THEN Looked(d, g.sha) ELSE Looked(d, NoSha)

uploadFile_probe_dropsSha(d, g, path) ==
    IF g.status \in {200, 404} THEN Looked(d, NoSha)
    ELSE Thrown(d, ApiError(g.status, path))

\* uploadFile: look the file up; only a 404 is ignored
uploadFile_probe(d, g, path) ==
    IF g.status = 200 THEN Looked(d, g.sha)
    ELSE IF g.status # 404 THEN Thrown(d, ApiError(g.status, path))
    ELSE Looked(d, NoSha)

safeUploadBinary_probe_dropsSha(d, g, path) ==
    IF g.status \in {200, 404} THEN Looked(d, NoSha)
    ELSE Thrown(d, ApiError(g.status, path))

\* safeUploadBinary: look the file up; only a 404 is ignored
safeUploadBinary_probe(d, g, path) ==
    IF g.status = 200 THEN Looked(d, g.sha)
    ELSE IF g.status # 404 THEN Thrown(d, ApiError(g.status, path))
    ELSE Looked(d, NoSha)

uploadFile_getContent ==
    /\ dep.pc \in TextPcs
    /\ dep.up.phase = "none"
    /\ LET t == TextTarget(dep) IN
       \E g \in GetContentResponses(remote, t.path, dep.branch) :
          dep' = uploadFile_probe(
                    Call(Step(dep, "upload:" \o t.path),
                         "getContent", t.path, NoSha, None, g.status),
                    g, t.path)
    /\ UNCHANGED <<configFile, localPdfs, assetDir, today, remote, service, op, runs, other, uploads>>

uploadFile_commit ==
    /\ dep.pc \in TextPcs
    /\ dep.up.phase = "looked"
    /\ LET t == TextTarget(dep)
           contentEncoded == Base64(t.content) IN
       \E s \in PutResponses(remote, t.path, dep.branch, dep.up.sha) :
          LET d == Call(dep, "put", t.path, dep.up.sha, contentEncoded, s) IN
          IF s \in {200, 201}
          THEN /\ remote' = Stored(remote, t.path, contentEncoded)
               /\ dep' = AfterText([d EXCEPT !.up = NoUpload,
                                             !.committed = @ \cup {[path |-> t.path,
                                                content |-> t.content]}],
                                   today)
          ELSE /\ remote' = remote
               /\ dep' = Thrown(d, ApiError(s, t.path))
    /\ UNCHANGED <<configFile, localPdfs, assetDir, today, service, op, runs, other, uploads>>

safeUploadBinary_getContent ==
    /\ HasBinTarget(dep, assetDir, localPdfs)
    /\ dep.up.phase = "none"
    /\ LET t == BinTarget(dep, assetDir) IN
       \E g \in GetContentResponses(remote, t.path, dep.branch) :
          dep' = safeUploadBinary_probe(
                    Call(Step(dep, "upload:" \o t.path),
                         "getContent", t.path, NoSha, None, g.status),
                    g, t.path)
    /\ UNCHANGED <<configFile, localPdfs, assetDir, today, remote, service, op, runs, other, uploads>>

safeUploadBinary_commit ==
    /\ HasBinTarget(dep, assetDir, localPdfs)
    /\ dep.up.phase = "looked"
    /\ LET t == BinTarget(dep, assetDir)
           content == Base64(t.content) IN
       \E s \in PutResponses(remote, t.path, dep.branch, dep.up.sha) :
          LET d == Call(dep, "put", t.path, dep.up.sha, content, s) IN
          IF s \in {200, 201}
          THEN /\ remote' = Stored(remote, t.path, content)
               /\ dep' = AfterBin([d EXCEPT !.up = NoUpload,
                                            !.committed = @ \cup {[path |-> t.path,
                                               content |-> t.content]}])
          ELSE /\ remote' = remote
               /\ dep' = Thrown(d, ApiError(s, t.path))
    /\ UNCHANGED <<configFile, localPdfs, assetDir, today, service, op, runs, other, uploads>>

EnterPdfs(d) == [d EXCEPT !.pc = "pdfs", !.ci = 1, !.si = 1]

\* Step 6: uploadCustomerAssets returns at once without the assets folder
uploadCustomerAssets ==
    /\ dep.pc = "assets"
    /\ dep.ai = 0
    /\ LET d == Step(dep, "uploadCustomerAssets") IN
       dep' = IF ~assetDir.exists THEN EnterPdfs(d) ELSE [d EXCEPT !.ai = 1]
    /\ UNCHANGED <<configFile, localPdfs, assetDir, today, remote, service, op, runs, other, uploads>>

\* the asset loop: a skipped entry, or the end of the listing
uploadCustomerAssets_next ==
    /\ dep.pc = "assets"
    /\ dep.ai >= 1
    /\ ~HasBinTarget(dep, assetDir, localPdfs)
    /\ dep' = IF dep.ai > Len(assetDir.entries)
                 THEN EnterPdfs(dep)
                 ELSE [dep EXCEPT !.ai = dep.ai + 1]
    /\ UNCHANGED <<configFile, localPdfs, assetDir, today, remote, service, op, runs, other, uploads>>

\* Step 7, the PDF loop: a slot that is skipped, or the end of the list
Deploy_pdfLoop ==
    /\ dep.pc = "pdfs"
    /\ ~HasBinTarget(dep, assetDir, localPdfs)
    /\ dep' = IF dep.ci > Len(dep.config.chemicals)
                 THEN [dep EXCEPT !.pc = "enablePages"]
                 ELSE NextSlot(dep)
    /\ UNCHANGED <<configFile, localPdfs, assetDir, today, remote, service, op, runs, other, uploads>>

AlreadyEnabled_never(status) == FALSE

\* enablePages: if (error.status === 409) Pages is already enabled
AlreadyEnabled(status) == status = 409

\* Step 8
enablePages ==
    /\ dep.pc = "enablePages"
    /\ \E s \in CreatePagesResponses(remote) :
        LET d == Call(Step(dep, "enablePages"), "createPagesSite", "", NoSha, None, s) IN
        IF s = 201
        THEN /\ remote' = [remote EXCEPT !.pages = [enabled |-> TRUE,
                                                    branch |-> dep.branch]]
             /\ dep' = [d EXCEPT !.pc = "wait"]
        ELSE /\ remote' = remote
             /\ dep' = IF AlreadyEnabled(s) THEN [d EXCEPT !.pc = "wait"]
                       ELSE Thrown(d, ApiError(s, "createPagesSite"))
    /\ UNCHANGED <<configFile, localPdfs, assetDir, today, service, op, runs, other, uploads>>

\* await new Promise(r => setTimeout(r, 10000))
Deploy_wait ==
    /\ dep.pc = "wait"
    /\ dep' = [Step(dep, "wait") EXCEPT !.pc = "verify", !.ci = 1, !.si = 1]
    /\ UNCHANGED <<configFile, localPdfs, assetDir, today, remote, service, op, runs, other, uploads>>

MinPdfBytes == 1024

\* parseInt(res.headers.get('content-length') || '0', 10)
ContentLength(res) == IF res.length = NoHeader THEN 0 ELSE res.length

\* contentType.includes('pdf')
IncludesPdf(type) == "pdf" \in Range(type)

\* verifyPDFsOnPages: the checks one HEAD response has to pass
Verified(res) ==
    /\ res.ok
    /\ ~(~IncludesPdf(res.type) \/ ContentLength(res) < MinPdfBytes)

PagesUrl(repoName, filename) ==
    "https://" \o Owner \o ".github.io/" \o repoName \o "/pdfs/" \o Str(filename)

\* verifyPDFsOnPages(repoName, chemicals): one document per step
verifyPDFsOnPages ==
    /\ dep.pc = "verify"
    /\ IF dep.ci > Len(dep.config.chemicals)
       THEN dep' = [dep EXCEPT !.pc = "qr"]
       ELSE LET filename == Filename(Slot(dep.config.chemicals[dep.ci], dep.si)) IN
            IF Falsy(filename)
            THEN dep' = NextSlot(dep)
            ELSE \E res \in HeadResponses(remote, "pdfs/" \o Str(filename)) :
                 LET url == PagesUrl(dep.repo.name, filename)
                     d == HeadCall(Step(dep, "verify:" \o Str(filename)),
                                   "pdfs/" \o Str(filename), res) IN
                 dep' = IF Verified(res)
                           THEN NextSlot(d)
                           ELSE Thrown(d, [status |-> res.status, at |-> url,
                                           reason |-> "Verification failed"])
    /\ UNCHANGED <<configFile, localPdfs, assetDir, today, remote, service, op, runs, other, uploads>>

\* Step 9
Deploy_generateQRCodes ==
    /\ dep.pc = "qr"
    /\ dep' = [Step(dep, "generateQRCodes") EXCEPT
                  !.pc = "return",
                  !.result = [qr_codes |-> generateQRCodes(dep.config)]]
    /\ UNCHANGED <<configFile, localPdfs, assetDir, today, remote, service, op, runs, other, uploads>>

Deploy_return ==
    /\ dep.pc = "return"
    /\ dep' = [Step(dep, "return") EXCEPT
                  !.pc = "done",
                  !.result = [success |-> TRUE,
                              repository |-> dep.repo,
                              url |-> "https://" \o Owner \o ".github.io/"
                                         \o dep.repo.name,
                              qr_codes |-> dep.result.qr_codes,
                              deployment_info |->
                                 [deployed_at |-> today, version |-> "1.0.0",
                                  total_chemicals |-> Len(dep.config.chemicals)]]]
    /\ UNCHANGED <<configFile, localPdfs, assetDir, today, remote, service, op, runs, other, uploads>>

\* the calendar date moves on between two calls
Tick ==
    /\ dep.pc \in Finished
    /\ op.pc \in Settled
    /\ today < MaxDate
    /\ today' = today + 1
    /\ UNCHANGED <<configFile, localPdfs, assetDir, remote, service, dep, op, runs, other, uploads>>

----------------------------------------------------------------------------
(* ChemicalManager: the registry of a customer's chemicals *)

Letters == {"a", "b", "c"}
Digits == {"0", "1", "2"}

\* toLowerCase, one character at a time
toLowerCase(ch) ==
    CASE ch = "A" -> "a" [] ch = "B" -> "b" [] ch = "C" -> "c" [] OTHER -> ch

IsSpace(ch) == ch \in {" "}

Kept_all(ch) == TRUE

\* the characters /[^a-z0-9\s]/g leaves in place
Kept(ch) == ch \in Letters \cup Digits \/ IsSpace(ch)

RECURSIVE Hyphenated(_)
\* .replace(/\s+/g, '-'): every run of whitespace becomes one hyphen
Hyphenated(s) ==
    IF s = <<>> THEN <<>>
    ELSE IF IsSpace(Head(s))
         THEN IF Len(s) > 1 /\ IsSpace(s[2])
                 THEN Hyphenated(Tail(s))
                 ELSE <<"-">> \o Hyphenated(Tail(s))
         ELSE <<Head(s)>> \o Hyphenated(Tail(s))

MaxIdLength == 50

generateChemicalId(name) ==
    LET lower == [i \in 1..Len(name) |-> toLowerCase(name[i])]
        hyphened == Hyphenated(SelectSeq(lower, Kept))
    IN  SubSeq(hyphened, 1,
               IF Len(hyphened) < MaxIdLength THEN Len(hyphened) ELSE MaxIdLength)

\* !chemicalData[field]: the field is absent, or the name is the empty string
MissingField(chemicalData, field) ==
    \/ field \notin DOMAIN chemicalData
    \/ field = "name" /\ chemicalData.name = <<>>

EndsWithPdf(filename) == filename[2] = ".pdf"

NotThrown == [thrown |-> FALSE, message |-> ""]
Error(message) == [thrown |-> TRUE, message |-> message]

validateChemicalData_literatureOnly(chemicalData) ==
    LET required == <<"name", "literature", "sds">>
        missing == SelectSeq(required, LAMBDA f : MissingField(chemicalData, f))
    IN  IF Len(missing) > 0 THEN Error("Missing required fields")
        ELSE IF Falsy(Filename(chemicalData.literature))
             THEN Error("Literature and SDS filenames are required")
        ELSE IF ~EndsWithPdf(chemicalData.literature.filename)
             THEN Error("Literature file must be a PDF")
        ELSE NotThrown

\* validateChemicalData: what it throws, if anything
validateChemicalData(chemicalData) ==
    LET required == <<"name", "literature", "sds">>
        missing == SelectSeq(required, LAMBDA f : MissingField(chemicalData, f))
    IN  IF Len(missing) > 0 THEN Error("Missing required fields")
        ELSE IF Falsy(Filename(chemicalData.literature))
                  \/ Falsy(Filename(chemicalData.sds))
             THEN Error("Literature and SDS filenames are required")
        ELSE IF ~EndsWithPdf(chemicalData.literature.filename)
             THEN Error("Literature file must be a PDF")
        ELSE IF ~EndsWithPdf(chemicalData.sds.filename)
             THEN Error("SDS file must be a PDF")
        ELSE NotThrown

findIndex_orLast(chemicals, chemicalId) ==
    LET hits == {i \in 1..Len(chemicals) : chemicals[i].id = chemicalId}
    IN  IF hits = {} THEN Len(chemicals)
        ELSE CHOOSE i \in hits : \A j \in hits : i <= j

\* chemicals.findIndex(c => c.id === chemicalId), 0 for JavaScript's -1
findIndex(chemicals, chemicalId) ==
    LET hits == {i \in 1..Len(chemicals) : chemicals[i].id = chemicalId}
    IN  IF hits = {} THEN 0 ELSE CHOOSE i \in hits : \A j \in hits : i <= j

\* chemicalData.x || fallback
OrElse(data, field, fallback) ==
    IF field \in DOMAIN data THEN data[field] ELSE fallback

newChemical_payloadId(chemicalData, chemicalId, date) ==
    [id |-> OrElse(chemicalData, "id", chemicalId),
     name |-> chemicalData.name,
     description |-> OrElse(chemicalData, "description",
                            "Professional chemical product"),
     hazards |-> OrElse(chemicalData, "hazards",
                        "See Safety Data Sheet for complete hazard information"),
     literature |-> DocRef(chemicalData.literature.filename,
                           OrElse(chemicalData.literature, "title",
                                  <<chemicalData.name, " Product Literature">>)),
     sds |-> DocRef(chemicalData.sds.filename,
                    OrElse(chemicalData.sds, "title",
                           <<chemicalData.name, " Safety Data Sheet">>)),
     supplier |-> OrElse(chemicalData, "supplier", "Unknown Supplier"),
     last_updated |-> date,
     active |-> TRUE,
     deactivated_date |-> 0]

\* addChemical: the record it builds from valid input
newChemical(chemicalData, chemicalId, date) ==
    [id |-> chemicalId,
     name |-> chemicalData.name,
     description |-> OrElse(chemicalData, "description",
                            "Professional chemical product"),
     hazards |-> OrElse(chemicalData, "hazards",
                        "See Safety Data Sheet for complete hazard information"),
     literature |-> DocRef(chemicalData.literature.filename,
                           OrElse(chemicalData.literature, "title",
                                  <<chemicalData.name, " Product Literature">>)),
     sds |-> DocRef(chemicalData.sds.filename,
                    OrElse(chemicalData.sds, "title",
                           <<chemicalData.name, " Safety Data Sheet">>)),
     supplier |-> OrElse(chemicalData, "supplier", "Unknown Supplier"),
     last_updated |-> date,
     active |-> TRUE,
     deactivated_date |-> 0]

\* customerConfig.site_settings.last_updated = today
Stamped(customerConfig, date) ==
    [customerConfig EXCEPT !.site_settings.last_updated = date]

\* addChemical: push the new record
Pushed(customerConfig, chemical, date) ==
    Stamped([customerConfig EXCEPT !.chemicals = Append(@, chemical)], date)

MarkedInactive_spliced(customerConfig, chemicalIndex, date) ==
    Stamped([customerConfig EXCEPT !.chemicals =
                SubSeq(@, 1, chemicalIndex - 1)
                    \o SubSeq(@, chemicalIndex + 1, Len(@))], date)

\* removeChemical: the record stays, flagged inactive and dated
MarkedInactive(customerConfig, chemicalIndex, date) ==
    Stamped([customerConfig EXCEPT
                !.chemicals[chemicalIndex].active = FALSE,
                !.chemicals[chemicalIndex].deactivated_date = date], date)

\* Object.assign(target, source): source's own fields, one level deep
ObjectAssign(target, source) ==
    [f \in DOMAIN target \cup DOMAIN source |->
        IF f \in DOMAIN source THEN source[f] ELSE target[f]]

Updated_reactivated(customerConfig, chemicalIndex, updates, date) ==
    Stamped([customerConfig EXCEPT !.chemicals[chemicalIndex] =
                [ObjectAssign(@, updates) EXCEPT !.last_updated = date,
                                                 !.active = TRUE]], date)

\* updateChemical: merge the updates into the record and restamp it
Updated(customerConfig, chemicalIndex, updates, date) ==
    Stamped([customerConfig EXCEPT !.chemicals[chemicalIndex] =
                [ObjectAssign(@, updates) EXCEPT !.last_updated = date]], date)

\* loadCustomerConfig: read the file and parse it
loadCustomerConfig(file) == JSONparse(file)

listChemicals_countsReturned(file, includeInactive) ==
    LET customerConfig == loadCustomerConfig(file)
        chemicals == IF ~includeInactive THEN ActiveOf(customerConfig.chemicals)
                                         ELSE customerConfig.chemicals
    IN  [customer |-> customerConfig.customer_info.name,
         total |-> Len(chemicals),
         active |-> Len(ActiveOf(chemicals)),
         inactive |-> Len(SelectSeq(chemicals, LAMBDA c : ~c.active)),
         chemicals |-> chemicals]

\* listChemicals(customerSlug, includeInactive) on the stored file
listChemicals(file, includeInactive) ==
    LET customerConfig == loadCustomerConfig(file)
        chemicals == IF ~includeInactive THEN ActiveOf(customerConfig.chemicals)
                                         ELSE customerConfig.chemicals
    IN  [customer |-> customerConfig.customer_info.name,
         total |-> Len(chemicals),
         active |-> Len(ActiveOf(customerConfig.chemicals)),
         inactive |-> Len(SelectSeq(customerConfig.chemicals,
                                    LAMBDA c : ~c.active)),
         chemicals |-> chemicals]

generateUploadChecklist_all(file, date) ==
    LET customerConfig == loadCustomerConfig(file)
        chemicals == customerConfig.chemicals
    IN  [customer |-> customerConfig.customer_info.name,
         generated |-> date,
         required |-> Len(chemicals) * 2,
         entries |-> [i \in 1..Len(chemicals) |->
                        [number |-> i,
                         name |-> chemicals[i].name,
                         literature |-> Filename(chemicals[i].literature),
                         sds |-> Filename(chemicals[i].sds)]],
         repository |-> customerConfig.customer_info.github_repo.name,
         last_updated |-> customerConfig.site_settings.last_updated]

\* generateUploadChecklist: the text it returns, as its parts: the heading,
\* the date, the number of required files, one entry per active chemical
\* with its literature and SDS filename (`undefined`, here NoName, when
\* the record has none), the repository and the config's last_updated
generateUploadChecklist(file, date) ==
    LET customerConfig == loadCustomerConfig(file)
        chemicals == ActiveOf(customerConfig.chemicals)
    IN  [customer |-> customerConfig.customer_info.name,
         generated |-> date,
         required |-> Len(chemicals) * 2,
         entries |-> [i \in 1..Len(chemicals) |->
                        [number |-> i,
                         name |-> chemicals[i].name,
                         literature |-> Filename(chemicals[i].literature),
                         sds |-> Filename(chemicals[i].sds)]],
         repository |-> customerConfig.customer_info.github_repo.name,
         last_updated |-> customerConfig.site_settings.last_updated]

\* what callers pass in
PdfRef(filename) == [filename |-> filename]

AddInputs ==
    {[name |-> <<"B">>, literature |-> PdfRef(BLit), sds |-> PdfRef(BSds)],
     [name |-> <<"A">>, literature |-> PdfRef(ALit), sds |-> PdfRef(ASds)],
     [name |-> <<"A">>, id |-> <<"b">>,
      literature |-> PdfRef(ALit), sds |-> PdfRef(ASds)],
     [name |-> <<"B">>, literature |-> PdfRef(<<"b_lit", ".txt">>),
      sds |-> PdfRef(BSds)],
     [name |-> <<"B">>, literature |-> PdfRef(BLit),
      sds |-> PdfRef(<<"b_sds", ".txt">>)],
     [name |-> <<"B">>, literature |-> [title |-> <<<<"B">>, " v2">>],
      sds |-> PdfRef(BSds)],
     [name |-> <<"B">>, literature |-> PdfRef(BLit),
      sds |-> [title |-> <<<<"B">>, " v2">>]],
     [literature |-> PdfRef(BLit), sds |-> PdfRef(BSds)]}

RemoveInputs == {<<"a">>, <<"b">>, <<"z">>}

UpdateInputs ==
    {[id |-> <<"a">>, updates |-> [literature |-> [title |-> <<<<"A">>, " v2">>]]],
     [id |-> <<"b">>, updates |-> [active |-> TRUE]],
     [id |-> <<"z">>, updates |-> [supplier |-> "Rasco"]]}

NoCall ==
    [pc |-> "idle", kind |-> "", id |-> <<>>, data |-> None, before |-> <<>>,
     config |-> None, index |-> 0, error |-> NoError, result |-> None]

NewCall(kind, id, data, customerConfig) ==
    [NoCall EXCEPT !.pc = "load", !.kind = kind, !.id = id, !.data = data,
                   !.before = customerConfig.chemicals]

\* catch (error) { console.error(...); throw error; }
Rejected(call, at, message) ==
    [call EXCEPT !.pc = "failed",
                 !.error = [status |-> 0, at |-> at, reason |-> message]]

Changed_discarded(call, customerConfig, index) ==
    [call EXCEPT !.pc = "save",
                 !.config = [customerConfig EXCEPT !.chemicals = call.before],
                 !.index = index]

\* the call has changed its copy of the config and goes on to write it
Changed(call, customerConfig, index) ==
    [call EXCEPT !.pc = "save", !.config = customerConfig, !.index = index]

CanCall == op.pc \in Settled /\ dep.pc \in Finished /\ runs < MaxRuns

\* addChemical up to the write: load, validate, derive the id, then either
\* hand over to updateChemical or push the new record
addChemical ==
    /\ CanCall
    /\ \E chemicalData \in AddInputs :
        LET customerConfig == loadCustomerConfig(configFile)
            invalid == validateChemicalData(chemicalData)
            chemicalId == generateChemicalId(chemicalData.name)
            existingIndex == findIndex(customerConfig.chemicals, chemicalId)
            call == NewCall("add", <<>>, chemicalData, customerConfig)
        IN  IF invalid.thrown
            THEN op' = Rejected(call, "validateChemicalData", invalid.message)
            ELSE IF existingIndex # 0
            THEN op' = [call EXCEPT !.pc = "update", !.id = chemicalId]
            ELSE /\ Len(customerConfig.chemicals) < MaxChemicals
                 /\ op' = Changed([call EXCEPT !.id = chemicalId],
                                  Pushed(customerConfig,
                                         newChemical(chemicalData, chemicalId, today),
                                         today),
                                  Len(customerConfig.chemicals) + 1)
    /\ runs' = runs + 1
    /\ UNCHANGED <<configFile, localPdfs, assetDir, today, remote, service, dep, other, uploads>>

\* removeChemical up to the write
removeChemical ==
    /\ CanCall
    /\ \E chemicalId \in RemoveInputs :
        LET customerConfig == loadCustomerConfig(configFile)
            chemicalIndex == findIndex(customerConfig.chemicals, chemicalId)
            call == NewCall("remove", chemicalId, None, customerConfig)
        IN  op' = IF chemicalIndex = 0
                     THEN Rejected(call, "removeChemical", "not found")
                     ELSE Changed(call,
                                  MarkedInactive(customerConfig, chemicalIndex, today),
                                  chemicalIndex)
    /\ runs' = runs + 1
    /\ UNCHANGED <<configFile, localPdfs, assetDir, today, remote, service, dep, other, uploads>>

\* updateChemical up to the write, called directly or by addChemical
updateChemical ==
    /\ op.pc = "update" \/ CanCall
    /\ LET customerConfig == loadCustomerConfig(configFile)
           calls == IF op.pc = "update"
                       THEN {[op EXCEPT !.before = customerConfig.chemicals]}
                       ELSE {NewCall("update", u.id, u.updates, customerConfig) :
                                u \in UpdateInputs}
       IN  \E call \in calls :
           LET chemicalIndex == findIndex(customerConfig.chemicals, call.id) IN
           op' = IF chemicalIndex = 0
                    THEN Rejected(call, "updateChemical", "not found")
                    ELSE Changed(call,
                                 Updated(customerConfig, chemicalIndex,
                                         call.data, today),
                                 chemicalIndex)
    /\ runs' = IF op.pc = "update" THEN runs ELSE runs + 1
    /\ UNCHANGED <<configFile, localPdfs, assetDir, today, remote, service, dep, other, uploads>>

\* saveCustomerConfig writes the whole file; the call then starts
\* this.deployer.deployCustomerSite(customerConfig)
saveCustomerConfig ==
    /\ op.pc = "save"
    /\ dep.pc \in Finished /\ other.pc # "deploy"
    /\ configFile' = JSONstringify(op.config)
    /\ dep' = [NewRun(op.config) EXCEPT !.after = Outcome(dep, remote)]
    /\ op' = [op EXCEPT !.pc = "deploy"]
    /\ UNCHANGED <<localPdfs, assetDir, today, remote, service, runs, other, uploads>>

\* the deployment has returned or thrown: so does the call
ChemicalManager_return ==
    /\ op.pc = "deploy"
    /\ dep.pc \in {"done", "failed"}
    /\ op' = IF dep.pc = "done"
                THEN [op EXCEPT !.pc = "done",
                        !.result = [success |-> TRUE,
                                    chemical |-> op.config.chemicals[op.index],
                                    deployment |-> dep.result,
                                    total_chemicals |->
                                        Len(ActiveOf(op.config.chemicals))]]
                ELSE [op EXCEPT !.pc = "failed", !.error = dep.error]
    /\ UNCHANGED <<configFile, localPdfs, assetDir, today, remote, service, dep, runs, other, uploads>>

\* a call that only reads the config: it returns what it computed
Returned(kind, data, customerConfig, result) ==
    [NewCall(kind, <<>>, data, customerConfig) EXCEPT !.pc = "done",
                                                      !.result = result]

\* listChemicals(slug, includeInactive), by a caller
ChemicalManager_listChemicals ==
    /\ op.pc \in Settled /\ dep.pc \in Finished
    /\ \E includeInactive \in BOOLEAN :
          op' = Returned("list", [includeInactive |-> includeInactive],
                         loadCustomerConfig(configFile),
                         listChemicals(configFile, includeInactive))
    /\ UNCHANGED <<configFile, localPdfs, assetDir, today, remote, service, dep, runs, other, uploads>>

\* generateUploadChecklist(slug), by a caller
ChemicalManager_generateUploadChecklist ==
    /\ op.pc \in Settled /\ dep.pc \in Finished
    /\ op' = Returned("checklist", None, loadCustomerConfig(configFile),
                      generateUploadChecklist(configFile, today))
    /\ UNCHANGED <<configFile, localPdfs, assetDir, today, remote, service, dep, runs, other, uploads>>

----------------------------------------------------------------------------

Init ==
    /\ \E chemicals \in InitChemicalLists :
          configFile = JSONstringify(CustomerConfig(chemicals))
    /\ localPdfs \in LocalPdfChoices
    /\ assetDir \in AssetDirs
    /\ today = 1
    /\ remote = NoRemote
    /\ service = Unreliable
    /\ dep = [NewRun(JSONparse(configFile)) EXCEPT !.pc = "idle"]
    /\ op = NoCall
    /\ runs = 0
    /\ other = NoCall
    /\ uploads = {}

\* the steps of a running deployCustomerSite call
Deploy ==
    \/ Deploy_createRepository
    \/ Deploy_generateHTML
    \/ uploadFile_getContent
    \/ uploadFile_commit
    \/ uploadCustomerAssets
    \/ uploadCustomerAssets_next
    \/ safeUploadBinary_getContent
    \/ safeUploadBinary_commit
    \/ Deploy_pdfLoop
    \/ enablePages
    \/ Deploy_wait
    \/ verifyPDFsOnPages
    \/ Deploy_generateQRCodes
    \/ Deploy_return

Next ==
    \/ DeployStart
    \/ Deploy
    \/ Tick

Spec == Init /\ [][Next]_vars

\* the registry, one call after the other, against a healthy service
RegistryLists ==
    {<<>>, <<ChemA(TRUE)>>, <<ChemA(TRUE), ChemB(TRUE)>>,
     <<ChemA(TRUE), ChemB(FALSE)>>}

InitChem ==
    /\ \E chemicals \in RegistryLists :
          configFile = JSONstringify(CustomerConfig(chemicals))
    /\ localPdfs = AllPdfNames
    /\ assetDir = [exists |-> TRUE, entries |-> AssetListing]
    /\ today = 1
    /\ remote = NoRemote
    /\ service = Healthy
    /\ dep = [NewRun(JSONparse(configFile)) EXCEPT !.pc = "idle"]
    /\ op = NoCall
    /\ runs = 0
    /\ other = NoCall
    /\ uploads = {}

NextChem ==
    \/ addChemical
    \/ removeChemical
    \/ updateChemical
    \/ saveCustomerConfig
    \/ ChemicalManager_return
    \/ ChemicalManager_listChemicals
    \/ ChemicalManager_generateUploadChecklist
    \/ Deploy
    \/ Tick

SpecChem == InitChem /\ [][NextChem]_vars

----------------------------------------------------------------------------
(* generateChemicalId on its own *)

\* characters of a name: upper and lower case, a digit, a space, a hyphen,
\* punctuation
NameChars == {"A", "b", "1", " ", "-", "!"}

RECURSIVE Padding(_)
Padding(n) == IF n = 0 THEN <<>> ELSE <<"c">> \o Padding(n - 1)

\* names: every string of up to MaxNameLen characters, alone and followed
\* by enough letters to reach the length at which the id is cut
ChemicalNames ==
    {prefix \o Padding(n) :
        prefix \in UNION {[1..k -> NameChars] : k \in 0..MaxNameLen},
        n \in {0, MaxIdLength - 2, MaxIdLength - 1, MaxIdLength}}

InitId ==
    /\ configFile = JSONstringify(CustomerConfig(<<>>))
    /\ localPdfs = AllPdfNames
    /\ assetDir = NoDir
    /\ today = 1
    /\ remote = NoRemote
    /\ service = Healthy
    /\ dep = [NewRun(JSONparse(configFile)) EXCEPT !.pc = "idle"]
    /\ \E name \in ChemicalNames :
          op = [NoCall EXCEPT !.kind = "generateChemicalId",
                              !.data = [name |-> name]]
    /\ runs = 0
    /\ other = NoCall
    /\ uploads = {}

\* generateChemicalId(name), called a first and a second time
ChemicalManager_generateChemicalId ==
    /\ op.kind = "generateChemicalId"
    /\ \/ /\ op.pc = "idle"
          /\ op' = [op EXCEPT !.pc = "again",
                              !.id = generateChemicalId(op.data.name)]
       \/ /\ op.pc = "again"
          /\ op' = [op EXCEPT !.pc = "done",
                              !.result = [id |-> generateChemicalId(op.data.name)]]
    /\ UNCHANGED <<configFile, localPdfs, assetDir, today, remote, service, dep, runs, other, uploads>>

NextId == ChemicalManager_generateChemicalId

SpecId == InitId /\ [][NextId]_vars

----------------------------------------------------------------------------
(* Two callers at once: a second ChemicalManager call beside op *)

\* the second call keeps, beside the locals of a call, the config it loaded
\* and what the config file held when it wrote
Beside(call, customerConfig) ==
    [f \in DOMAIN call \cup {"loaded", "found"} |->
        CASE f = "loaded" -> customerConfig
          [] f = "found" -> None
          [] OTHER -> call[f]]

\* what the second caller passes in
BesideAddInputs ==
    {[name |-> <<"B">>, literature |-> PdfRef(BLit), sds |-> PdfRef(BSds)]}
BesideRemoveInputs == {<<"a">>}
BesideUpdateInputs == {[id |-> <<"a">>, updates |-> [supplier |-> "Rasco"]]}

CanCallBeside == other.pc \in Settled /\ runs < MaxRuns

\* addChemical by the second caller, up to the write or the hand-over
Beside_addChemical ==
    /\ CanCallBeside
    /\ \E chemicalData \in BesideAddInputs :
        LET customerConfig == loadCustomerConfig(configFile)
            invalid == validateChemicalData(chemicalData)
            chemicalId == generateChemicalId(chemicalData.name)
            existingIndex == findIndex(customerConfig.chemicals, chemicalId)
            call == Beside(NewCall("add", <<>>, chemicalData, customerConfig),
                           customerConfig)
        IN  IF invalid.thrown
            THEN other' = Rejected(call, "validateChemicalData", invalid.message)
            ELSE IF existingIndex # 0
            THEN other' = [call EXCEPT !.pc = "update", !.id = chemicalId]
            ELSE /\ Len(customerConfig.chemicals) < MaxChemicals
                 /\ other' = Changed([call EXCEPT !.id = chemicalId],
                                     Pushed(customerConfig,
                                            newChemical(chemicalData, chemicalId,
                                                        today),
                                            today),
                                     Len(customerConfig.chemicals) + 1)
    /\ runs' = runs + 1
    /\ UNCHANGED <<configFile, localPdfs, assetDir, today, remote, service, dep, op, uploads>>

\* removeChemical by the second caller, up to the write
Beside_removeChemical ==
    /\ CanCallBeside
    /\ \E chemicalId \in BesideRemoveInputs :
        LET customerConfig == loadCustomerConfig(configFile)
            chemicalIndex == findIndex(customerConfig.chemicals, chemicalId)
            call == Beside(NewCall("remove", chemicalId, None, customerConfig),
                           customerConfig)
        IN  other' = IF chemicalIndex = 0
                        THEN Rejected(call, "removeChemical", "not found")
                        ELSE Changed(call,
                                     MarkedInactive(customerConfig,
                                                    chemicalIndex, today),
                                     chemicalIndex)
    /\ runs' = runs + 1
    /\ UNCHANGED <<configFile, localPdfs, assetDir, today, remote, service, dep, op, uploads>>

\* updateChemical by the second caller or by its addChemical, up to the write
Beside_updateChemical ==
    /\ other.pc = "update" \/ CanCallBeside
    /\ LET customerConfig == loadCustomerConfig(configFile)
           calls == IF other.pc = "update"
                       THEN {[other EXCEPT !.before = customerConfig.chemicals,
                                           !.loaded = customerConfig]}
                       ELSE {Beside(NewCall("update", u.id, u.updates,
                                            customerConfig), customerConfig) :
                                u \in BesideUpdateInputs}
       IN  \E call \in calls :
           LET chemicalIndex == findIndex(customerConfig.chemicals, call.id) IN
           other' = IF chemicalIndex = 0
                       THEN Rejected(call, "updateChemical", "not found")
                       ELSE Changed(call,
                                    Updated(customerConfig, chemicalIndex,
                                            call.data, today),
                                    chemicalIndex)
    /\ runs' = IF other.pc = "update" THEN runs ELSE runs + 1
    /\ UNCHANGED <<configFile, localPdfs, assetDir, today, remote, service, dep, op, uploads>>

Overwritten_unlessChanged(file, loaded, customerConfig) ==
    IF file = JSONstringify(loaded) THEN JSONstringify(customerConfig) ELSE file

\* fs.writeFile(configPath, JSON.stringify(config)): the file becomes the
\* caller's copy, whatever it held
Overwritten(file, loaded, customerConfig) == JSONstringify(customerConfig)

\* saveCustomerConfig by the second caller
Beside_saveCustomerConfig ==
    /\ other.pc = "save"
    /\ configFile' = Overwritten(configFile, other.loaded, other.config)
    /\ other' = [other EXCEPT !.pc = "saved", !.found = configFile]
    /\ UNCHANGED <<localPdfs, assetDir, today, remote, service, dep, op, runs, uploads>>

\* this.deployer.deployCustomerSite(customerConfig) by the second caller;
\* the runs of the two callers are taken one after the other
Beside_deployCustomerSite ==
    /\ other.pc = "saved"
    /\ dep.pc \in Finished /\ op.pc # "deploy"
    /\ dep' = [NewRun(other.config) EXCEPT !.after = Outcome(dep, remote)]
    /\ other' = [other EXCEPT !.pc = "deploy"]
    /\ UNCHANGED <<configFile, localPdfs, assetDir, today, remote, service, op, runs, uploads>>

\* the deployment has returned or thrown: so does the second call
Beside_return ==
    /\ other.pc = "deploy"
    /\ dep.pc \in {"done", "failed"}
    /\ other' = IF dep.pc = "done"
                   THEN [other EXCEPT !.pc = "done",
                            !.result = [success |-> TRUE,
                                        deployment |-> dep.result]]
                   ELSE [other EXCEPT !.pc = "failed", !.error = dep.error]
    /\ UNCHANGED <<configFile, localPdfs, assetDir, today, remote, service, dep, op, runs, uploads>>

NextRace ==
    \/ addChemical
    \/ removeChemical
    \/ updateChemical
    \/ saveCustomerConfig
    \/ ChemicalManager_return
    \/ Beside_addChemical
    \/ Beside_removeChemical
    \/ Beside_updateChemical
    \/ Beside_saveCustomerConfig
    \/ Beside_deployCustomerSite
    \/ Beside_return
    \/ Deploy

\* two callers, a healthy service
InitRace ==
    /\ \E chemicals \in {<<ChemA(TRUE)>>} :
          configFile = JSONstringify(CustomerConfig(chemicals))
    /\ localPdfs = AllPdfNames
    /\ assetDir = [exists |-> TRUE, entries |-> AssetListing]
    /\ today = 1
    /\ remote = NoRemote
    /\ service = Healthy
    /\ dep = [NewRun(JSONparse(configFile)) EXCEPT !.pc = "idle"]
    /\ op = NoCall
    /\ runs = 0
    /\ other = NoCall
    /\ uploads = {}

SpecRace == InitRace /\ [][NextRace]_vars

----------------------------------------------------------------------------
(* The dashboard: file status of the staging directory, deletion of a
   customer *)

\* the config file after fsp.unlink
NoFile == [missing |-> TRUE]

\* a file in the staging directory that no chemical references
ExtraPdf == <<"c", ".pdf">>

\* a staging directory that exists and that the process may not list
DeniedDir == [exists |-> TRUE, entries |-> <<ALit, ASds>>, denied |-> TRUE]

\* fs.readdir(filesDir): the names, or the error it rejects with
readdir(dir) ==
    IF ~dir.exists THEN [thrown |-> TRUE, code |-> "ENOENT", files |-> <<>>]
    ELSE IF "denied" \in DOMAIN dir
         THEN [thrown |-> TRUE, code |-> "EACCES", files |-> <<>>]
    ELSE [thrown |-> FALSE, code |-> "", files |-> dir.entries]

\* fs.readdir(uploads/<slug>): the directory may not exist
UploadListings ==
    {NoDir, DeniedDir} \cup
    {[exists |-> TRUE, entries |-> e] :
        e \in {<<>>, <<ASds, ExtraPdf>>, <<ALit, ASds>>, <<ALit, ASds, BLit>>,
               <<ALit, ASds, BLit, BSds>>}}

\* the documents handleFileStatus walks through: the literature, then the
\* SDS, of every chemical of the list
References(chemicals) ==
    [k \in 1..(2 * Len(chemicals)) |->
        LET chemical == chemicals[(k + 1) \div 2]
            type == IF k % 2 = 1 THEN "literature" ELSE "sds"
        IN  [type |-> type, chemical |-> chemical.name,
             filename |-> Filename(chemical[type])]]

\* const index = orphanedFiles.indexOf(x); if (index > -1) splice(index, 1)
SplicedOut(orphanedFiles, x) ==
    LET hits == {i \in 1..Len(orphanedFiles) : orphanedFiles[i] = x}
    IN  IF hits = {} THEN orphanedFiles
        ELSE LET index == CHOOSE i \in hits : \A j \in hits : i <= j
             IN  SubSeq(orphanedFiles, 1, index - 1)
                     \o SubSeq(orphanedFiles, index + 1, Len(orphanedFiles))

\* the orphaned list after the forEach over the chemicals
RECURSIVE Orphaned(_, _, _)
Orphaned(orphanedFiles, references, files) ==
    IF references = <<>> THEN orphanedFiles
    ELSE LET r == Head(references)
         IN  Orphaned(IF r.filename \in Range(files)
                         THEN SplicedOut(orphanedFiles, r.filename)
                         ELSE orphanedFiles,
                      Tail(references), files)

fileStatus_nothingToCheck(customerConfig, dir) ==
    LET files == IF readdir(dir).thrown THEN <<>> ELSE readdir(dir).files
        chemicals == customerConfig.chemicals
        references == SelectSeq(References(chemicals),
                                LAMBDA r : ~Falsy(r.filename))
        missingFiles == IF readdir(dir).thrown THEN <<>>
                        ELSE SelectSeq(references,
                                       LAMBDA r : r.filename \notin Range(files))
        orphanedFiles == Orphaned(files, references, files)
    IN  [customer |-> customerConfig.customer_info.name,
         slug |-> customerConfig.customer_info.slug,
         totalFiles |-> Len(files),
         totalChemicals |-> Len(chemicals),
         missingFiles |-> Len(missingFiles),
         orphanedFiles |-> Len(orphanedFiles),
         missingFilesList |-> missingFiles,
         orphanedFilesList |-> orphanedFiles,
         status |-> IF Len(missingFiles) = 0 THEN "complete" ELSE "incomplete"]

\* handleFileStatus: the report on one customer
fileStatus(customerConfig, dir) ==
    LET files == IF readdir(dir).thrown THEN <<>> ELSE readdir(dir).files
        chemicals == customerConfig.chemicals
        references == SelectSeq(References(chemicals),
                                LAMBDA r : ~Falsy(r.filename))
        missingFiles == SelectSeq(references,
                                  LAMBDA r : r.filename \notin Range(files))
        orphanedFiles == Orphaned(files, references, files)
    IN  [customer |-> customerConfig.customer_info.name,
         slug |-> customerConfig.customer_info.slug,
         totalFiles |-> Len(files),
         totalChemicals |-> Len(chemicals),
         missingFiles |-> Len(missingFiles),
         orphanedFiles |-> Len(orphanedFiles),
         missingFilesList |-> missingFiles,
         orphanedFilesList |-> orphanedFiles,
         status |-> IF Len(missingFiles) = 0 THEN "complete" ELSE "incomplete"]

\* GET file status: one report per config file listCustomerSites finds
handleFileStatus ==
    /\ op.pc \in Settled
    /\ op' = [NoCall EXCEPT
                !.pc = "done", !.kind = "fileStatus",
                !.result =
                    [success |-> TRUE,
                     fileStatus |->
                        IF configFile = NoFile THEN <<>>
                        ELSE <<fileStatus(JSONparse(configFile), uploads)>>]]
    /\ UNCHANGED <<configFile, localPdfs, assetDir, today, remote, service, dep, runs, other, uploads>>

\* GET files of a customer: one entry per file of the staging directory;
\* the inner catch answers any failure of readdir or stat with no files
handleListFiles ==
    /\ op.pc \in Settled
    /\ LET listing == readdir(uploads)
           fileDetails == [i \in 1..Len(listing.files) |->
                             [filename |-> listing.files[i],
                              url |-> "/uploads/acme/" \o Str(listing.files[i]),
                              type |-> listing.files[i][2]]]
       IN  op' = [NoCall EXCEPT
                    !.pc = "done", !.kind = "listFiles",
                    !.result = [success |-> TRUE,
                                files |-> IF listing.thrown THEN <<>>
                                                            ELSE fileDetails]]
    /\ UNCHANGED <<configFile, localPdfs, assetDir, today, remote, service, dep, runs, other, uploads>>

\* a repository that createRepository has made
CreatedRemote == [NoRemote EXCEPT !.exists = TRUE, !.files = AutoInitFiles]

\* repos.delete: 204, 404 when there is no such repository, or a failure
DeleteRepoResponses(r) ==
    (IF r.exists THEN {204} ELSE {404}) \cup service.faults

Deleted_orGone(status) == status \in {204, 404}

\* await repos.delete(...) returns on 204 and throws otherwise
Deleted(status) == status = 204

\* deleteCustomerSite: read and parse the config file
deleteCustomerSite ==
    /\ op.pc \in Settled
    /\ LET call == [NoCall EXCEPT !.kind = "delete", !.data = [status |-> 0]]
       IN  op' = IF configFile = NoFile
                    THEN Rejected(call, "readFile", "ENOENT")
                    ELSE [call EXCEPT !.pc = "repos.delete",
                                      !.config = JSONparse(configFile)]
    /\ UNCHANGED <<configFile, localPdfs, assetDir, today, remote, service, dep, runs, other, uploads>>

\* deleteCustomerSite: delete the repository
deleteCustomerSite_delete ==
    /\ op.pc = "repos.delete"
    /\ \E status \in DeleteRepoResponses(remote) :
        LET call == [op EXCEPT !.data = [status |-> status]]
        IN  /\ remote' = IF status = 204 THEN NoRemote ELSE remote
            /\ op' = IF Deleted(status)
                        THEN [call EXCEPT !.pc = "unlink"]
                        ELSE [Rejected(call, "repos.delete", "request failed")
                                 EXCEPT !.error.status = status]
    /\ UNCHANGED <<configFile, localPdfs, assetDir, today, service, dep, runs, other, uploads>>

\* deleteCustomerSite: unlink the config file and return
deleteCustomerSite_unlink ==
    /\ op.pc = "unlink"
    /\ configFile' = NoFile
    /\ op' = [op EXCEPT !.pc = "done", !.result = [success |-> TRUE]]
    /\ UNCHANGED <<localPdfs, assetDir, today, remote, service, dep, runs, other, uploads>>

\* POST bodies of a create request: complete, without slug, without
\* name, with an empty name
CreateInputs ==
    {[name |-> "Acme", slug |-> "acme"],
     [name |-> "Acme 2", slug |-> "acme"],
     [name |-> "Acme"],
     [slug |-> "acme"],
     [name |-> "", slug |-> "acme"]}

\* !customerData.name || !customerData.slug
MissingNameOrSlug(customerData) ==
    \/ "name" \notin DOMAIN customerData \/ customerData.name = ""
    \/ "slug" \notin DOMAIN customerData \/ customerData.slug = ""

\* createCustomerConfig(customerData), on a day
createCustomerConfig(customerData, date) ==
    [customer_info |-> [name |-> customerData.name, slug |-> customerData.slug,
                        github_repo |-> [name |-> customerData.slug \o "-ghs-binder"]],
     chemicals |-> <<>>,
     site_settings |-> [last_updated |-> date],
     deployment |-> [status |-> "created", last_deployed |-> 0]]

writeFile_unlessTaken(file, customerConfig) ==
    IF file # NoFile THEN file ELSE JSONstringify(customerConfig)

\* fs.writeFile(configPath, JSON.stringify(customerConfig, null, 2))
writeFile(file, customerConfig) == JSONstringify(customerConfig)

\* fs.mkdir(uploadsDir, { recursive: true })
mkdir(dir) == IF dir.exists THEN dir ELSE [exists |-> TRUE, entries |-> <<>>]

\* POST create customer: validate, build the config, write it, make the
\* staging directory; a rejected write is answered with status 500
handleCreateCustomer ==
    /\ op.pc \in Settled
    /\ \E customerData \in CreateInputs, written \in BOOLEAN :
        LET call == [NoCall EXCEPT
                        !.pc = "done", !.kind = "createCustomer",
                        !.data = customerData,
                        !.before = IF configFile = NoFile THEN <<>>
                                   ELSE JSONparse(configFile).chemicals]
        IN  IF MissingNameOrSlug(customerData)
            THEN /\ op' = [call EXCEPT !.result =
                              [status |-> 400, success |-> FALSE,
                               error |-> "Customer name and slug are required"]]
                 /\ UNCHANGED <<configFile, uploads>>
            ELSE IF ~written
            THEN /\ op' = [call EXCEPT !.result =
                              [status |-> 500, success |-> FALSE,
                               error |-> "EACCES"]]
                 /\ UNCHANGED <<configFile, uploads>>
            ELSE LET customerConfig == createCustomerConfig(customerData, today) IN
                 /\ configFile' = writeFile(configFile, customerConfig)
                 /\ uploads' = mkdir(uploads)
                 /\ op' = [call EXCEPT !.result =
                              [status |-> 200, success |-> TRUE,
                               customer |-> customerConfig.customer_info]]
    /\ UNCHANGED <<localPdfs, assetDir, today, remote, service, dep, runs, other>>

InitDash ==
    /\ \E chemicals \in RegistryLists :
          configFile = JSONstringify(CustomerConfig(chemicals))
    /\ localPdfs = AllPdfNames
    /\ assetDir = NoDir
    /\ today = 1
    /\ remote \in {NoRemote, CreatedRemote}
    /\ service = Unreliable
    /\ dep = [NewRun(JSONparse(configFile)) EXCEPT !.pc = "idle"]
    /\ op = NoCall
    /\ runs = 0
    /\ other = NoCall
    /\ uploads \in UploadListings

NextDash ==
    \/ handleFileStatus
    \/ handleListFiles
    \/ deleteCustomerSite
    \/ deleteCustomerSite_delete
    \/ deleteCustomerSite_unlink
    \/ handleCreateCustomer

SpecDash == InitDash /\ [][NextDash]_vars

----------------------------------------------------------------------------
(* Properties of the deployment pipeline *)

Map(s, F(_)) == [i \in 1..Len(s) |-> F(s[i])]
IsPrefix(s, t) == Len(s) <= Len(t) /\ \A i \in 1..Len(s) : s[i] = t[i]
Last(s) == s[Len(s)]
IndexOf(s, x) == IF x \in Range(s) THEN CHOOSE i \in 1..Len(s) : s[i] = x ELSE 0

\* the document slots of a chemicals list, in the order of the list,
\* literature before SDS
Slots(chemicals) ==
    [k \in 1..(2 * Len(chemicals)) |->
        Slot(chemicals[(k + 1) \div 2], IF k % 2 = 1 THEN 1 ELSE 2)]

UploadedNames(chemicals, pdfs) ==
    Map(SelectSeq(Slots(chemicals), LAMBDA f : ~MissingPdf(f, pdfs)),
        LAMBDA f : Str(Filename(f)))
VerifiedNames(chemicals) ==
    Map(SelectSeq(Slots(chemicals), LAMBDA f : ~Falsy(Filename(f))),
        LAMBDA f : Str(Filename(f)))
AssetNames(dir) ==
    Map(SelectSeq(dir.entries, LAMBDA e : ~SkippedAsset(e)),
        LAMBDA e : Str(e.name))

StepOrder(customerConfig, dir, pdfs) ==
    <<"createRepository", "generateHTML",
      "upload:.nojekyll", "upload:pdfs/.gitkeep", "upload:assets/.gitkeep",
      "upload:qr-codes/.gitkeep", "upload:index.html", "upload:README.md",
      "uploadCustomerAssets">>
    \o Map(AssetNames(dir), LAMBDA n : "upload:assets/" \o n)
    \o Map(UploadedNames(customerConfig.chemicals, pdfs),
           LAMBDA n : "upload:pdfs/" \o n)
    \o <<"enablePages", "wait">>
    \o Map(VerifiedNames(customerConfig.chemicals), LAMBDA n : "verify:" \o n)
    \o <<"generateQRCodes", "return">>

\* C1: the steps of a deployCustomerSite run start in the fixed order
\* create repository, render, .nojekyll, placeholders, index.html,
\* README.md, assets, PDFs, enablePages, delay, verification, QR, return:
\* what a run has started so far is always an initial part of that order,
\* and a failed run has started nothing after the step that failed.
C1_FixedStepOrder ==
    /\ IsPrefix(dep.steps, StepOrder(dep.config, assetDir, localPdfs))
    /\ dep.pc = "done" =>
          dep.steps = StepOrder(dep.config, assetDir, localPdfs)
    /\ \A i \in 1..Len(dep.steps) :
          /\ dep.steps[i] \in {"upload:pdfs/" \o Str(f) : f \in AllPdfNames}
                => IndexOf(dep.steps, "upload:.nojekyll") \in 1..(i - 1)
          /\ dep.steps[i] \in {"verify:" \o Str(f) : f \in AllPdfNames}
                => /\ IndexOf(dep.steps, "enablePages") \in 1..(i - 1)
                   /\ IndexOf(dep.steps, "wait") \in 1..(i - 1)

C1_Witness ==
    /\ dep.pc = "done"
    /\ "upload:pdfs/b_sds.pdf" \in Range(dep.steps)
    /\ "upload:assets/logo.png" \in Range(dep.steps)
    /\ "verify:a_lit.pdf" \in Range(dep.steps)

\* a request whose answer the client does not anticipate
Failing(c) ==
    CASE c.call = "repos.create"     -> c.status \notin {201, 422}
      [] c.call = "repos.get"        -> c.status # 200
      [] c.call = "getContent"       -> c.status \notin {200, 404}
      [] c.call = "put"              -> c.status \notin {200, 201}
      [] c.call = "createPagesSite"  -> c.status \notin {201, 409}
      [] c.call = "HEAD"             -> c.status # 200

StillCommitted(d, r) ==
    \A c \in d.committed : HasFile(r, c.path) /\ r.files[c.path] = c.content

\* C2: a failing step fails the whole call with that error, no later
\* step is executed (a failing request is the last request of the run and
\* a failed run changes nothing any more), and every file the run has
\* committed so far stays in the repository.
C2_AbortWithoutRollback ==
    /\ [](/\ \A i \in 1..Len(dep.calls) :
                Failing(dep.calls[i]) =>
                    /\ i = Len(dep.calls)
                    /\ dep.pc = "failed"
                    /\ dep.error.status = dep.calls[i].status
          /\ dep.pc = "failed" => StillCommitted(dep, remote))
    /\ [][dep.pc = "failed" =>
            \/ UNCHANGED <<dep, remote>>
            \/ dep'.pc = "createRepository" /\ runs' = runs + 1 /\ remote' = remote]_vars

C2_Witness ==
    /\ dep.pc = "failed"
    /\ dep.error.status = 500
    /\ \E c \in dep.committed : c.path = "pdfs/a_lit.pdf"
    /\ Last(dep.calls).call = "put"

\* the repository after one clean successful run of the configuration
CleanFiles(d, dir, pdfs) ==
    LET pdfPaths == {"pdfs/" \o n : n \in Range(UploadedNames(d.config.chemicals, pdfs))}
        assetPaths == {"assets/" \o n : n \in Range(AssetNames(dir))}
        emptyPaths == {".nojekyll", "pdfs/.gitkeep", "assets/.gitkeep",
                       "qr-codes/.gitkeep"}
    IN  [p \in {"LICENSE", "README.md", "index.html"} \cup emptyPaths
                \cup assetPaths \cup pdfPaths |->
            IF p = "LICENSE" THEN AutoInitFiles["LICENSE"]
            ELSE IF p = "README.md" THEN d.readme
            ELSE IF p = "index.html" THEN d.html
            ELSE IF p \in emptyPaths THEN EmptyText
            ELSE IF p \in assetPaths
                 THEN [kind |-> "asset",
                       body |-> CHOOSE n \in Range(AssetNames(dir)) : p = "assets/" \o n]
            ELSE [kind |-> "pdf",
                  body |-> CHOOSE n \in Range(UploadedNames(d.config.chemicals, pdfs)) :
                              p = "pdfs/" \o n]]

\* a request the service answered with a failure of its own, or a
\* document it did not serve as a PDF of plausible size
NotSucceeding(c) ==
    \/ c.status \in FaultStatuses
    \/ c.call = "HEAD" /\ ~(c.status = 200 /\ c.type = PdfType /\ c.length > 1024)

C4_ProbeDistinguishesNotFound ==
    \A i \in 1..Len(dep.calls) :
        LET c == dep.calls[i] IN
        c.call = "getContent" =>
            /\ c.status \notin {200, 404} =>
                  /\ i = Len(dep.calls)
                  /\ dep.pc = "failed"
                  /\ dep.error.status = c.status
                  /\ dep.up.phase = "none"
            /\ (c.status = 404 /\ i = Len(dep.calls)) =>
                  dep.pc # "failed" /\ dep.up = [phase |-> "looked", sha |-> NoSha]
            /\ (c.status = 404 /\ i < Len(dep.calls)) =>
                  /\ dep.calls[i + 1].call = "put"
                  /\ dep.calls[i + 1].path = c.path
                  /\ ~dep.calls[i + 1].sha.present

C4_Witness ==
    /\ Len(dep.calls) = 2
    /\ dep.calls[1].call = "getContent" /\ dep.calls[1].status = 404
    /\ dep.calls[1].path = "pdfs/a_sds.pdf"
    /\ dep.calls[2].call = "put" /\ dep.calls[2].status = 201
    /\ HasFile(remote, "pdfs/a_sds.pdf")

\* C5: upload is create-or-update: a commit that follows a lookup which
\* found the file carries the sha of the stored blob and replaces the file
\* in place (status 200), the service never refuses a commit as a
\* conflict, and after a commit the path holds the uploaded content.
C5_IdempotentUpload ==
    \A i \in 1..Len(dep.calls) :
        LET c == dep.calls[i] IN
        c.call = "put" =>
            /\ c.status \notin {409, 422, 404}
            /\ i = 2 =>
                  /\ dep.calls[1].call = "getContent"
                  /\ dep.calls[1].path = c.path
                  /\ dep.calls[1].status = 200 =>
                        c.sha.present /\ c.status \in {200} \cup FaultStatuses
            /\ c.status \in {200, 201} =>
                  /\ HasFile(remote, c.path)
                  /\ remote.files[c.path] = Base64Decode(c.content)

C5_Witness ==
    /\ Len(dep.calls) = 2
    /\ dep.calls[2].call = "put" /\ dep.calls[2].status = 200
    /\ dep.calls[2].path = "pdfs/a_lit.pdf"
    /\ dep.calls[2].sha = ShaOf(Base64Decode(dep.calls[2].content))
    /\ dep.after # "idle"

\* C6: an existing repository is reused: a 422 of the create call is
\* followed by the fetch of the repository, whose default branch is the
\* branch of every upload and of the Pages activation; any other failure
\* of the create call ends the run with that status.
C6_ExistingRepositoryReused ==
    /\ \A i \in 1..Len(dep.calls) :
        LET c == dep.calls[i] IN
        /\ c.call = "repos.create" =>
              /\ c.status = 422 =>
                    /\ Len(dep.calls) = i + 1
                    /\ dep.calls[i + 1].call = "repos.get"
                    /\ dep.calls[i + 1].status = 200 =>
                          /\ dep.reused
                          /\ dep.error.at \notin {"repos.create", "repos.get"}
                          /\ dep.repo.default_branch = remote.default_branch
              /\ c.status \notin {201, 422} =>
                    dep.pc = "failed" /\ dep.error.status = c.status
        /\ c.call \in {"getContent", "put", "createPagesSite"} =>
              c.branch = remote.default_branch
    /\ dep.pc \notin {"idle", "createRepository", "failed"} =>
          /\ dep.repo.default_branch = remote.default_branch
          /\ dep.branch = remote.default_branch
    /\ (remote.exists /\ remote.pages.enabled) =>
          remote.pages.branch = remote.default_branch

C6_Witness ==
    /\ dep.pc = "done"
    /\ dep.reused
    /\ dep.branch = "master"
    /\ remote.pages.branch = "master"
    /\ HasFile(remote, "pdfs/a_lit.pdf")

\* C7: verification accepts a document only with a success status, a
\* content-type containing "pdf" and a size above 1024 bytes.
C7_AcceptsOnlyAboveThreshold ==
    (dep.calls # <<>> /\ Last(dep.calls).call = "HEAD" /\ dep.pc # "failed") =>
        /\ Last(dep.calls).status = 200
        /\ "pdf" \in Range(Last(dep.calls).type)
        /\ Last(dep.calls).length > 1024

InactiveOnlyPaths(chemicals) ==
    {"pdfs/" \o Str(Filename(Slot(chemicals[i], k))) :
        i \in {j \in 1..Len(chemicals) : ~chemicals[j].active}, k \in {1, 2}}
    \ {"pdfs/" \o Str(Filename(Slot(chemicals[i], k))) :
        i \in {j \in 1..Len(chemicals) : chemicals[j].active}, k \in {1, 2}}

\* C8: a deployment uploads no document of an inactive chemical.
C8_InactiveNotUploaded ==
    \A c \in dep.committed : c.path \notin InactiveOnlyPaths(dep.config.chemicals)

\* C9: a missing local PDF is not fatal: verification asks only for
\* documents the repository holds, so a run does not fail on a document
\* that was skipped.
C9_MissingPdfNotFatal ==
    /\ (dep.calls # <<>> /\ Last(dep.calls).call = "HEAD") =>
          HasFile(remote, Last(dep.calls).path)
    /\ (dep.pc = "failed" /\ dep.error.reason = "Verification failed") =>
          HasFile(remote, Last(dep.calls).path)

\* the answer to the createPagesSite request the run has just made
Activation(d) == Last(d.calls)

\* C22: the step that activates Pages: on 201 and on the conflict 409
\* ("already enabled") enablePages returns and the run goes on to the wait
\* before verification, the 409 leaving the Pages settings as they are;
\* on every other answer the run fails with that error.
C22_ConflictIsSuccess ==
    [][dep.pc = "enablePages" =>
          /\ Activation(dep').call = "createPagesSite"
          /\ Activation(dep').status \in {201, 409} =>
                /\ dep'.pc = "wait"
                /\ dep'.error = NoError
                /\ Activation(dep').status = 409 => remote' = remote
          /\ Activation(dep').status \notin {201, 409} =>
                /\ dep'.pc = "failed"
                /\ dep'.error = ApiError(Activation(dep').status,
                                         "createPagesSite")
                /\ remote' = remote]_vars

\* a redeployment of a site whose Pages are active was answered 409 and
\* has reached verification
C22_Witness ==
    /\ dep.pc = "verify"
    /\ Activation(dep).call = "createPagesSite"
    /\ Activation(dep).status = 409
    /\ remote.pages.enabled
    /\ runs = 2

\* positions of the active records of a stored list, and the k-th of them
ActivePositions(chemicals) == {i \in 1..Len(chemicals) : chemicals[i].active}
NthActive(chemicals, k) ==
    CHOOSE i \in ActivePositions(chemicals) :
        Cardinality({j \in ActivePositions(chemicals) : j <= i}) = k

\* C24: the page rendered for a run counts the active chemicals of the
\* loaded config as its products and twice that as its documents, and
\* embeds exactly the active chemicals in stored order; the README
\* counts products and documents the same way.
C24_RendersActiveOnly ==
    LET chemicals == dep.config.chemicals
        count == Cardinality(ActivePositions(chemicals))
    IN  /\ dep.html # None =>
              /\ dep.html.TOTAL_PRODUCTS = count
              /\ dep.html.TOTAL_DOCUMENTS = 2 * count
              /\ Len(dep.html.PRODUCTS_JSON) = count
              /\ \A k \in 1..count :
                    dep.html.PRODUCTS_JSON[k] = chemicals[NthActive(chemicals, k)]
        /\ dep.readme # None =>
              /\ dep.readme.products = count
              /\ dep.readme.documents = 2 * count

\* page and README rendered from a list whose first record is inactive
C24_Witness ==
    /\ dep.html # None /\ dep.readme # None
    /\ Len(dep.config.chemicals) = 2
    /\ ~dep.config.chemicals[1].active
    /\ dep.html.PRODUCTS_JSON = <<dep.config.chemicals[2]>>
    /\ dep.readme.products = 1

\* the step that starts the upload of a PDF
PdfUpload(filename) == "upload:pdfs/" \o Str(filename)

\* the document of chemical c a run uploads: kind 1 its literature file,
\* kind 2 its SDS file; and the place of that upload among the steps of
\* the run, 0 while it has not started
Document(c, kind) ==
    LET chemical == dep.config.chemicals[c]
    IN  Filename(IF kind = 1 THEN chemical.literature ELSE chemical.sds)
UploadedAt(c, kind) == IndexOf(dep.steps, PdfUpload(Document(c, kind)))

\* C26: within one deployCustomerSite run at most one upload is in
\* flight: a lookup starts only when no upload is pending, and the step
\* after a successful lookup is the commit of the same path, accepted or
\* refused; PDFs are uploaded in the order of the chemicals list, the
\* literature file of a chemical before its SDS file and both before any
\* file of the next chemical.
C26_SequentialUploads ==
    /\ [](\A c, e \in 1..Len(dep.config.chemicals) : \A k, l \in {1, 2} :
             (/\ UploadedAt(c, k) # 0
              /\ UploadedAt(c, k) < UploadedAt(e, l)) =>
                 c < e \/ (c = e /\ k = 1 /\ l = 2))
    /\ [][/\ (Len(dep'.calls) > 0 /\ dep'.calls # dep.calls
                /\ Last(dep'.calls).call = "getContent") =>
                    dep.up.phase = "none"
          /\ (dep.up.phase = "looked" /\ dep' # dep) =>
                /\ Last(dep.calls).call = "getContent"
                /\ Last(dep'.calls).call = "put"
                /\ Last(dep'.calls).path = Last(dep.calls).path
                /\ dep'.up.phase = "none"]_vars

\* a run has uploaded both files of two chemicals and returned
C26_Witness ==
    /\ dep.pc = "done"
    /\ Len(dep.config.chemicals) = 2
    /\ UploadedAt(1, 1) # 0
    /\ UploadedAt(1, 2) = UploadedAt(1, 1) + 1
    /\ UploadedAt(2, 1) = UploadedAt(1, 1) + 2
    /\ UploadedAt(2, 2) = UploadedAt(1, 1) + 3

----------------------------------------------------------------------------
(* Properties of the chemical registry *)

StoredChemicals == loadCustomerConfig(configFile).chemicals

\* a removeChemical call that found its id and has written the config
Removed == op.kind = "remove" /\ op.pc \in {"deploy", "done", "failed"}
              /\ op.index # 0

\* C10: soft delete: once a removeChemical call that found its id has
\* written the config, the stored list is as long as the list it loaded,
\* every other record is the one it loaded, the record of that id is
\* inactive and carries a deactivated_date, listChemicals without inactive
\* records leaves it out and listChemicals with them returns it; and no
\* step of an add, remove or update call makes the stored list shorter.
C10_SoftDelete ==
    /\ [](Removed =>
            LET record == StoredChemicals[op.index] IN
            /\ Len(StoredChemicals) = Len(op.before)
            /\ \A i \in 1..Len(op.before) :
                  i # op.index => StoredChemicals[i] = op.before[i]
            /\ record.id = op.id
            /\ record.active = FALSE
            /\ record.deactivated_date \in 1..today
            /\ record \notin Range(listChemicals(configFile, FALSE).chemicals)
            /\ record \in Range(listChemicals(configFile, TRUE).chemicals)
            /\ listChemicals(configFile, TRUE).total = Len(op.before))
    /\ [][Len(StoredChemicals') >= Len(StoredChemicals)]_vars

C10_Witness ==
    /\ op.kind = "remove" /\ op.pc = "done" /\ op.index = 1
    /\ Len(StoredChemicals) = 2
    /\ StoredChemicals[1].deactivated_date = 2
    /\ listChemicals(configFile, FALSE).total = 1
    /\ listChemicals(configFile, TRUE).total = 2
    /\ dep.pc = "done"

\* C11: chemical ids are unique within a customer: no two records of the
\* stored chemicals list have the same id (every list of RegistryLists
\* starts with pairwise distinct ids).
C11_UniqueIds ==
    \A i, j \in 1..Len(StoredChemicals) :
        StoredChemicals[i].id = StoredChemicals[j].id => i = j

\* an addChemical call whose payload carries an id of its own has gone the
\* way of updateChemical and has written the config
C11_Witness ==
    /\ op.kind = "add" /\ op.pc \in {"deploy", "done"}
    /\ "id" \in DOMAIN op.data
    /\ op.index \in 1..Len(op.before)
    /\ Len(StoredChemicals) = Len(op.before)

\* input that addChemical has to reject: no name, no literature.filename, no
\* sds.filename, or a filename that does not end in .pdf
InvalidInput(chemicalData) ==
    LET literature == Filename(OrElse(chemicalData, "literature", None))
        sds == Filename(OrElse(chemicalData, "sds", None))
    IN  \/ OrElse(chemicalData, "name", <<>>) = <<>>
        \/ literature = NoName
        \/ sds = NoName
        \/ literature[2] # ".pdf"
        \/ sds[2] # ".pdf"

\* C12: an addChemical call with invalid input (name, literature.filename
\* or sds.filename missing, or a filename not ending in .pdf) fails with
\* the validation error, and the step that makes the call leaves the
\* stored config, the deployment and the repository as they were: nothing
\* is written and no deployment is started.
C12_InvalidInputRejected ==
    /\ []((op.kind = "add" /\ InvalidInput(op.data)) =>
            /\ op.pc = "failed"
            /\ op.error.at = "validateChemicalData"
            /\ op.config = None
            /\ StoredChemicals = op.before)
    /\ [][(op'.kind = "add" /\ InvalidInput(op'.data)) =>
            UNCHANGED <<configFile, dep, remote>>]_vars

\* the five kinds of invalid input have each been rejected at least once:
\* here the SDS filename that does not end in .pdf, after an earlier call
\* that was accepted and deployed
C12_Witness ==
    /\ op.kind = "add" /\ op.pc = "failed"
    /\ op.error.reason = "SDS file must be a PDF"
    /\ runs = 2
    /\ dep.pc = "done"

\* an addChemical call that pushed a new record and has written the config
Added == op.kind = "add" /\ op.pc \in {"deploy", "done", "failed"}
            /\ op.index = Len(op.before) + 1

\* a step that starts a deployCustomerSite run
DeploymentStarts == dep.pc \in Finished /\ dep'.pc = "createRepository"

\* C13: once an addChemical call with valid input and a name whose derived
\* id was not in the list has written the config, the stored list is the
\* list it loaded with exactly one record appended, that record has id
\* generateChemicalId(name) and active = TRUE, site_settings.last_updated is
\* the date of the call, and the running deployment is the deployment of
\* the stored config; on an empty list the count becomes 1.  A deployment
\* starts only in the step that writes the config, and none starts while
\* the call waits for its deployment.
C13_AddAppendsOne ==
    /\ [](Added =>
            LET record == Last(StoredChemicals) IN
            /\ ~InvalidInput(op.data)
            /\ \A i \in 1..Len(op.before) :
                  op.before[i].id # generateChemicalId(op.data.name)
            /\ StoredChemicals = Append(op.before, record)
            /\ record.id = generateChemicalId(op.data.name)
            /\ record.name = op.data.name
            /\ record.active = TRUE
            /\ JSONparse(configFile).site_settings.last_updated \in 1..today
            /\ dep.config = JSONparse(configFile)
            /\ op.pc = "deploy" =>
                  JSONparse(configFile).site_settings.last_updated = today
            /\ op.before = <<>> =>
                  /\ Len(StoredChemicals) = 1
                  /\ listChemicals(configFile, TRUE).total = 1
                  /\ op.pc = "done" => op.result.total_chemicals = 1)
    /\ [][DeploymentStarts =>
            /\ op.pc = "save" /\ op'.pc = "deploy"
            /\ configFile' = JSONstringify(op.config)
            /\ dep'.config = op.config]_vars
    /\ [][op.pc = "deploy" => dep'.config = dep.config /\ ~DeploymentStarts]_vars

\* a chemical has been added to a customer with zero chemicals on the
\* second day, and the deployment of the new config has succeeded
C13_Witness ==
    /\ op.kind = "add" /\ op.pc = "done"
    /\ op.before = <<>>
    /\ Len(StoredChemicals) = 1
    /\ StoredChemicals[1].last_updated = 2
    /\ op.result.total_chemicals = 1
    /\ dep.pc = "done"

\* a removeChemical or updateChemical call, made by a caller, whose id no
\* record of the list it loaded has
UnknownId(call) ==
    /\ call.kind \in {"remove", "update"}
    /\ \A i \in 1..Len(call.before) : call.before[i].id # call.id

\* C14: a removeChemical or updateChemical call with an id that no record
\* of the customer has fails with the not-found error, and the step that
\* makes the call leaves the stored config, the deployment and the
\* repository as they were.
C14_UnknownIdRejected ==
    /\ [](UnknownId(op) =>
            /\ op.pc = "failed"
            /\ op.error.reason = "not found"
            /\ op.error.at = IF op.kind = "remove" THEN "removeChemical"
                                                   ELSE "updateChemical"
            /\ op.config = None
            /\ StoredChemicals = op.before)
    /\ [][UnknownId(op') => UNCHANGED <<configFile, dep, remote>>]_vars

\* an update for an id that is not in a list of two records has failed,
\* after an earlier call that was deployed
C14_Witness ==
    /\ op.kind = "update" /\ op.pc = "failed"
    /\ op.id = <<"z">>
    /\ op.error.reason = "not found"
    /\ Len(op.before) = 2
    /\ runs = 2
    /\ dep.pc = "done"

\* the number of records of a list that are active, that are not
ActiveCount(chemicals) ==
    Cardinality({i \in 1..Len(chemicals) : chemicals[i].active})
InactiveCount(chemicals) ==
    Cardinality({i \in 1..Len(chemicals) : ~chemicals[i].active})

\* C15: what a listChemicals call has returned: all stored records when
\* includeInactive is true, exactly the records with active = TRUE
\* otherwise, in stored order; active and inactive count the whole stored
\* list in both cases, so they add up to the number of stored records, and
\* total is the length of the returned list.
C15_ListChemicals ==
    op.kind = "list" =>
        LET list == op.result
            records == list.chemicals
        IN  /\ op.data.includeInactive => records = StoredChemicals
            /\ ~op.data.includeInactive =>
                  /\ \A k \in 1..Len(records) : records[k].active
                  /\ Len(records) = ActiveCount(StoredChemicals)
                  /\ records = SelectSeq(StoredChemicals,
                                         LAMBDA c : c \in Range(records))
            /\ list.active = ActiveCount(StoredChemicals)
            /\ list.inactive = InactiveCount(StoredChemicals)
            /\ list.active + list.inactive = Len(StoredChemicals)
            /\ list.total = Len(records)

\* a list without inactive records of a stored list that holds one active
\* and one inactive record
C15_Witness ==
    /\ op.kind = "list" /\ ~op.data.includeInactive
    /\ op.result.total = 1
    /\ op.result.active = 1 /\ op.result.inactive = 1
    /\ Len(StoredChemicals) = 2
    /\ runs > 0

\* the filenames a checklist lists, in the order of the text
ChecklistFiles(checklist) ==
    [k \in 1..(2 * Len(checklist.entries)) |->
        IF k % 2 = 1 THEN checklist.entries[(k + 1) \div 2].literature
                     ELSE checklist.entries[(k + 1) \div 2].sds]

\* the literature and SDS filename of the records of a list with the
\* given active flag
FilenamesOf(chemicals, active) ==
    UNION {{Filename(chemicals[i].literature), Filename(chemicals[i].sds)} :
              i \in {j \in 1..Len(chemicals) : chemicals[j].active = active}}

\* C16: what a generateUploadChecklist call has returned for a customer
\* with n active chemicals: it announces 2n files and lists 2n, the
\* literature and the SDS filename of each active chemical in stored
\* order, and no filename that only an inactive chemical has; and the call
\* is a pure read: its step leaves the stored config, the deployment and
\* the repository as they were.
C16_ChecklistListsActiveFiles ==
    /\ [](op.kind = "checklist" =>
            LET files == ChecklistFiles(op.result)
                n == ActiveCount(StoredChemicals)
            IN  /\ op.pc = "done"
                /\ op.result.required = 2 * n
                /\ Len(files) = 2 * n
                /\ Range(files) = FilenamesOf(StoredChemicals, TRUE)
                /\ files = Map(Slots(ActiveOf(StoredChemicals)), Filename)
                /\ \A f \in FilenamesOf(StoredChemicals, FALSE) :
                      f \in Range(files) =>
                          f \in FilenamesOf(StoredChemicals, TRUE))
    /\ [][op'.kind = "checklist" => UNCHANGED <<configFile, dep, remote>>]_vars

\* the checklist of a customer with one active and one inactive chemical,
\* whose inactive chemical was removed by an earlier call
C16_Witness ==
    /\ op.kind = "checklist"
    /\ op.result.required = 2
    /\ ChecklistFiles(op.result) = <<ALit, ASds>>
    /\ Len(StoredChemicals) = 2
    /\ StoredChemicals[2].deactivated_date # 0
    /\ dep.pc = "done"

----------------------------------------------------------------------------
(* Properties of the dashboard *)

\* the report of the one customer in what handleFileStatus returned
Report == op.result.fileStatus[1]

Reported == op.kind = "fileStatus" /\ configFile # NoFile

\* C17: what handleFileStatus reports for a customer: missing is the set of
\* literature and SDS filenames of active chemicals that the staging
\* directory does not hold, orphaned is the set of files of the staging
\* directory that no active chemical references, and status is complete
\* exactly when nothing is missing.
C17_FileStatus ==
    Reported =>
        LET referenced == FilenamesOf(JSONparse(configFile).chemicals, TRUE)
                              \ {NoName}
            files == Range(uploads.entries)
        IN  /\ {m.filename : m \in Range(Report.missingFilesList)}
                  = referenced \ files
            /\ Range(Report.orphanedFilesList) = files \ referenced
            /\ Report.status = "complete" <=> Report.missingFiles = 0

\* one active chemical referencing two files, a staging directory holding
\* the second and a file of its own: the first is missing, the third orphaned
C17_Witness ==
    /\ Reported
    /\ Len(JSONparse(configFile).chemicals) = 1
    /\ uploads.entries = <<ASds, ExtraPdf>>
    /\ Report.missingFilesList
          = <<[type |-> "literature", chemical |-> <<"A">>, filename |-> ALit]>>
    /\ Report.orphanedFilesList = <<ExtraPdf>>
    /\ Report.status = "incomplete"

\* C19: deployment stamps the customer config: once deployCustomerSite has
\* succeeded for a customer created by the dashboard, the stored config's
\* deployment.last_deployed is a date (JavaScript's null is 0 here) and its
\* deployment.status is no longer "created".
C19_DeploymentStamps ==
    dep.pc = "done" =>
        /\ JSONparse(configFile).deployment.last_deployed # 0
        /\ JSONparse(configFile).deployment.status # "created"

\* a deployment of a customer with two chemicals has succeeded
C19_Witness ==
    /\ dep.pc = "done"
    /\ dep.result.success
    /\ Len(dep.config.chemicals) = 2
    /\ dep.config = JSONparse(configFile)

\* C20: deleteCustomerSite removes the repository first and the config file
\* second: after a successful call neither exists; the config file
\* disappears only in the unlink step of a call whose repository deletion
\* was answered with 204, when the repository is already gone; and a
\* repository deletion that fails makes the call fail and leaves the config
\* file and the repository as they were.
C20_RepositoryFirst ==
    /\ []((op.kind = "delete" /\ op.pc = "done") =>
            /\ ~remote.exists
            /\ configFile = NoFile
            /\ op.data.status = 204)
    /\ []((op.kind = "delete" /\ op.pc = "unlink") =>
            /\ ~remote.exists
            /\ configFile = JSONstringify(op.config)
            /\ op.data.status = 204)
    /\ []((op.kind = "delete" /\ op.pc = "failed"
              /\ op.error.at = "repos.delete") =>
            /\ configFile = JSONstringify(op.config)
            /\ op.data.status # 204)
    /\ [][(configFile # NoFile /\ configFile' = NoFile) =>
            /\ op.kind = "delete" /\ op.pc = "unlink"
            /\ ~remote.exists]_vars
    /\ [][(op.pc = "repos.delete" /\ op'.data.status # 204) =>
            /\ op'.pc = "failed"
            /\ UNCHANGED <<configFile, remote>>]_vars

\* a customer with a repository and two chemicals has been deleted
C20_Witness ==
    /\ op.kind = "delete" /\ op.pc = "done"
    /\ Len(op.config.chemicals) = 2
    /\ op.result.success
    /\ configFile = NoFile
    /\ ~remote.exists

IdChars ==
    {"a", "b", "c", "d", "e", "f", "g", "h", "i", "j", "k", "l", "m", "n",
     "o", "p", "q", "r", "s", "t", "u", "v", "w", "x", "y", "z",
     "0", "1", "2", "3", "4", "5", "6", "7", "8", "9", "-"}

\* C23: what generateChemicalId has returned for a name is made only of
\* lowercase letters, digits and hyphens and has at most 50 characters,
\* and a second call with the same name has returned the same id.
C23_IdShape ==
    /\ (op.kind = "generateChemicalId" /\ op.pc \in {"again", "done"}) =>
          /\ \A i \in 1..Len(op.id) : op.id[i] \in IdChars
          /\ Len(op.id) <= 50
    /\ (op.kind = "generateChemicalId" /\ op.pc = "done") =>
          op.result.id = op.id

\* a name with an upper case letter, a space and punctuation, longer than
\* 50 characters, has been cut to 50
C23_Witness ==
    /\ op.kind = "generateChemicalId" /\ op.pc = "done"
    /\ Len(op.data.name) = 3 + MaxIdLength
    /\ SubSeq(op.data.name, 1, 3) = <<"A", " ", "!">>
    /\ SubSeq(op.id, 1, 3) = <<"a", "-", "c">>
    /\ Len(op.id) = 50

\* updateChemical has merged its updates and is about to write
Merged ==
    /\ op.kind \in {"add", "update"}
    /\ op.pc = "save"
    /\ op.index \in 1..Len(op.before)

\* the top-level fields the updates do not name keep their value and
\* last_updated is restamped
TopLevelKept ==
    LET old == op.before[op.index]
        new == op.config.chemicals[op.index]
    IN  Merged =>
          /\ \A f \in DOMAIN old \ (DOMAIN op.data \cup {"last_updated"}) :
                new[f] = old[f]
          /\ new.last_updated = today

\* the url of a reference the updates name without a url keeps its value
UrlKept ==
    LET old == op.before[op.index]
        new == op.config.chemicals[op.index]
    IN  Merged =>
          \A f \in {"literature", "sds"} \cap DOMAIN op.data :
              ("url" \in DOMAIN old[f] /\ "url" \notin DOMAIN op.data[f]) =>
                  /\ "url" \in DOMAIN new[f]
                  /\ new[f].url = old[f].url

\* C25: when updateChemical has merged a partial update, every field of
\* the record that the update does not name keeps its value, the url of
\* a literature or sds reference included when the update gives only
\* its filename or title, and last_updated is restamped.
C25_MergeKeepsFields == TopLevelKept /\ UrlKept

\* a title-only literature update has been merged into a record that had
\* a literature url
C25_Witness ==
    /\ Merged
    /\ op.kind = "update"
    /\ DOMAIN op.data = {"literature"}
    /\ DOMAIN op.data.literature = {"title"}
    /\ "url" \in DOMAIN op.before[op.index].literature
    /\ op.config.chemicals[op.index].supplier = op.before[op.index].supplier

\* the stored config holds what the call did to the list it loaded: the
\* new record, the deactivation or the merged fields
MutationStored ==
    /\ configFile = JSONstringify(op.config)
    /\ IF op.index = Len(op.before) + 1
       THEN /\ Len(StoredChemicals) = Len(op.before) + 1
            /\ StoredChemicals[op.index].name = op.data.name
       ELSE IF op.kind = "remove"
       THEN ~StoredChemicals[op.index].active
       ELSE \A f \in DOMAIN op.data :
               StoredChemicals[op.index][f] = op.data[f]

\* C28: addChemical, removeChemical and updateChemical write the config
\* before they start the deployment and never restore it: while the
\* deployment runs the file holds the mutation, and when the deployment
\* fails the call fails with the deployment's error and the mutation
\* stays in the file.
C28_WrittenBeforeDeployNotRestored ==
    /\ []((op.kind \in {"add", "remove", "update"}
             /\ op.pc \in {"deploy", "failed"} /\ op.index # 0) =>
                MutationStored)
    /\ [][(op.pc = "deploy" /\ op'.pc # "deploy") =>
             /\ dep.pc \in {"done", "failed"}
             /\ configFile' = configFile
             /\ dep.pc = "failed" =>
                   /\ op'.pc = "failed"
                   /\ op'.error = dep.error
                   /\ op'.error # NoError]_vars
    /\ [][(op.pc = "save" /\ op'.pc = "deploy") =>
             /\ configFile' = JSONstringify(op.config)
             /\ dep'.pc = "createRepository"]_vars

\* a removeChemical call has failed with its deployment and the record is
\* stored deactivated
C28_Witness ==
    /\ op.kind = "remove" /\ op.pc = "failed" /\ op.index # 0
    /\ dep.pc = "failed" /\ op.error = dep.error
    /\ op.before[op.index].active
    /\ ~StoredChemicals[op.index].active

\* addChemical has taken the update path on a record that was inactive
\* when the call loaded the list, with a payload that carries no active
ReAdded ==
    /\ op.kind = "add"
    /\ op.pc \in {"save", "deploy", "done", "failed"}
    /\ op.index \in 1..Len(op.before)
    /\ ~op.before[op.index].active
    /\ "active" \notin DOMAIN op.data

\* C29: re-adding a removed chemical does not reactivate it: the record
\* the call writes stays active = FALSE with its deactivated_date, stays
\* out of listChemicals(slug, false), of the checklist and of the rendered
\* site, and the call reports success when its deployment succeeds.
C29_ReAddStaysInactive ==
    ReAdded =>
        LET record == op.config.chemicals[op.index] IN
        /\ ~record.active
        /\ record.deactivated_date = op.before[op.index].deactivated_date
        /\ op.pc # "save" =>
              /\ StoredChemicals[op.index] = record
              /\ record \notin Range(listChemicals(configFile, FALSE).chemicals)
              /\ LET entries == generateUploadChecklist(configFile, today).entries
                 IN  /\ Len(entries) = ActiveCount(StoredChemicals)
                     /\ \A i \in DOMAIN entries :
                           /\ NthActive(StoredChemicals, i) # op.index
                           /\ entries[i].name =
                                 StoredChemicals[NthActive(StoredChemicals, i)].name
              /\ dep.html # None => record \notin Range(dep.html.PRODUCTS_JSON)
        /\ op.pc = "done" =>
              /\ op.result.success
              /\ dep.pc = "done"
              /\ record \notin Range(dep.html.PRODUCTS_JSON)

\* chemical a was removed on a day, then added again by name, and the
\* call has returned success
C29_Witness ==
    /\ ReAdded
    /\ op.pc = "done"
    /\ op.result.success
    /\ op.before[op.index].deactivated_date >= 1
    /\ StoredChemicals[op.index].deactivated_date >= 1
    /\ ~StoredChemicals[op.index].active
    /\ listChemicals(configFile, FALSE).total = Len(StoredChemicals) - 1

----------------------------------------------------------------------------
(* Properties of two callers at once *)

\* the call has changed its copy of the config and has written the file
Wrote(call) == call.pc \in {"saved", "deploy", "done", "failed"}
                  /\ call.index # 0

\* the call has changed the list it loaded
Changes(call) == call.config.chemicals # call.before

\* the record the call changed or pushed is not in the stored list
Lost(call) ==
    \/ call.index > Len(StoredChemicals)
    \/ StoredChemicals[call.index] # call.config.chemicals[call.index]

\* both calls have written, neither loaded what the other wrote, and they
\* made different changes to the same loaded list
Raced ==
    /\ Wrote(op) /\ Wrote(other)
    /\ op.before = other.before
    /\ Changes(op) /\ Changes(other)
    /\ op.config # other.config

\* the second caller found the write of op in the file when it wrote
BesideWroteLast == other.found = JSONstringify(op.config)

\* C18: two calls on the same customer that both load before either
\* saves: once both have written, the stored config is the copy of the
\* call that wrote last, whole, and the record the other call changed or
\* pushed is not in it; and every write puts the writer's whole copy in the
\* file, whatever the file held.
C18_LastWriterWins ==
    /\ [](Raced =>
            IF BesideWroteLast
               THEN configFile = JSONstringify(other.config) /\ Lost(op)
               ELSE configFile = JSONstringify(op.config) /\ Lost(other))
    /\ [][configFile' # configFile =>
            \/ op.pc = "save" /\ configFile' = JSONstringify(op.config)
            \/ other.pc = "save"
                  /\ configFile' = JSONstringify(other.config)]_vars

\* op removed chemical a and the second caller added chemical B, both on the
\* list they loaded before either wrote; the second caller wrote last, and
\* both calls have returned: chemical a is active again in the stored list
C18_Witness ==
    /\ Raced /\ BesideWroteLast
    /\ op.kind = "remove" /\ op.pc = "done"
    /\ other.kind = "add" /\ other.pc = "done"
    /\ Len(StoredChemicals) = 2
    /\ StoredChemicals[1].active

\* the other order: the second caller wrote first, op wrote last
C18_WitnessOpLast ==
    /\ Raced /\ ~BesideWroteLast
    /\ op.pc = "done" /\ other.pc = "done"

\* a handler has answered after a listing of the staging directory failed
\* for another reason than the directory not being there
ListingFailed ==
    /\ \/ op.kind = "listFiles"
       \/ op.kind = "fileStatus" /\ Len(op.result.fileStatus) = 1
    /\ readdir(uploads).thrown
    /\ readdir(uploads).code # "ENOENT"

\* C21: no operation swallows an unexpected error: when the listing of the
\* staging directory fails for another reason than the directory not being
\* there, the handler does not answer with success.
C21_NoSwallowedError == ListingFailed => ~op.result.success

\* the file status of a customer whose staging directory cannot be listed
C21_Witness ==
    /\ ListingFailed
    /\ op.kind = "fileStatus"
    /\ Report.totalFiles = 0
    /\ Report.status = "incomplete"

\* the filenames the chemicals of a config refer to
Referenced(customerConfig) ==
    ({Filename(c.literature) : c \in Range(customerConfig.chemicals)}
        \cup {Filename(c.sds) : c \in Range(customerConfig.chemicals)})
    \ {NoName}

\* C27: a file-status report changes neither the config file nor the
\* staging directory, and when the staging directory does not exist the
\* customer is reported, not failed: totalFiles = 0, no orphaned file and
\* every referenced filename missing.
C27_MissingDirIsZeroFiles ==
    [][(op'.kind = "fileStatus" /\ op'.pc = "done") =>
          /\ configFile' = configFile
          /\ uploads' = uploads
          /\ (configFile # NoFile /\ uploads = NoDir) =>
                LET report == op'.result.fileStatus[1] IN
                /\ op'.result.success
                /\ Len(op'.result.fileStatus) = 1
                /\ report.status # "error"
                /\ report.totalFiles = 0
                /\ report.orphanedFiles = 0
                /\ report.orphanedFilesList = <<>>
                /\ {r.filename : r \in Range(report.missingFilesList)}
                      = Referenced(JSONparse(configFile))
                /\ report.missingFiles = Cardinality(Referenced(JSONparse(configFile)))
      ]_vars

\* the report on a customer with two chemicals and no staging directory
C27_Witness ==
    /\ op.kind = "fileStatus" /\ op.pc = "done"
    /\ configFile # NoFile /\ uploads = NoDir
    /\ Len(JSONparse(configFile).chemicals) = 2
    /\ Len(op.result.fileStatus) = 1
    /\ op.result.fileStatus[1].totalFiles = 0
    /\ op.result.fileStatus[1].missingFiles = 4
    /\ op.result.fileStatus[1].status = "incomplete"

\* C30: a create request with a name and a slug is not refused because
\* the slug is taken: unless the write itself fails it is answered with
\* success, and the config file, whether it existed or not, then holds a
\* fresh config with an empty chemicals list and a deployment block of
\* status created; a request without name or without slug is answered
\* with status 400 and writes nothing.
C30_CreateOverwrites ==
    [][(op'.kind = "createCustomer" /\ op'.pc = "done") =>
          IF MissingNameOrSlug(op'.data)
          THEN /\ op'.result.status = 400
               /\ ~op'.result.success
               /\ configFile' = configFile
               /\ uploads' = uploads
          ELSE /\ op'.result.status \in {200, 500}
               /\ op'.result.status = 500 =>
                     /\ op'.result.error = "EACCES"
                     /\ configFile' = configFile
               /\ op'.result.status = 200 =>
                     /\ op'.result.success
                     /\ configFile' # NoFile
                     /\ JSONparse(configFile').chemicals = <<>>
                     /\ JSONparse(configFile').customer_info.name = op'.data.name
                     /\ JSONparse(configFile').deployment
                           = [status |-> "created", last_deployed |-> 0]
      ]_vars

\* a create request for the slug of a customer with two chemicals has
\* been answered with success and the stored list is empty
C30_Witness ==
    /\ op.kind = "createCustomer" /\ op.pc = "done"
    /\ op.result.status = 200
    /\ Len(op.before) = 2
    /\ configFile # NoFile
    /\ JSONparse(configFile).chemicals = <<>>

====
